---- MODULE Spec2Model ----
(***************************************************************************)
(* A model of the task / cancellation core of dathor-helpers:              *)
(*   Task<T>, CancellationToken, CancellationTokenSource (Task.ts),        *)
(*   WorkerTask (WorkerTask.ts), TaskScheduler (TaskScheduler.ts) and the  *)
(*   single-pass and multi-pass GPU executors.                             *)
(* Each component has its own specification (SpecTask, SpecToken,          *)
(* SpecWorker, SpecSched, SpecSchedOps, SpecGpu, SpecFactory, SpecArgs,    *)
(* SpecXt); the variables of the other components stay at their idle       *)
(* values.                                                                 *)
(***************************************************************************)
EXTENDS Integers, Sequences, FiniteSets, TLC

VARIABLES
    \* ---- Task<T> under test (Task.ts)
    task,               \* the Task object: currentStatus, resultValue, error, internalPromise
    taskPc,             \* where the constructor / executor is
    taskCalls,          \* how many resolve / reject / throw calls were made
    cont,               \* one t.continueWith(fn) call: fn, the Task it returned, its progress
    read,               \* history: what the last read of t.result did
    \* ---- CancellationToken under test (Task.ts)
    token,              \* _isCancellationRequested, _callbacks
    invoked,            \* history: the callbacks invoked, in order
    registeredBefore,   \* history: the callbacks registered before the first cancel()
    cancelCalls,        \* history: number of cancel() calls
    registerCalls,      \* history: number of register() calls
    \* ---- WorkerTask (WorkerTask.ts)
    nextId,             \* WorkerTask.nextId
    pending,            \* WorkerTask.pending: request id -> the Task it settles
    wtasks,             \* the Tasks returned by dispatchWorkerAction, in call order
    wtokens,            \* the CancellationTokens handed to dispatchWorkerAction
    outbox,             \* messages posted to the worker, in order
    issued,             \* history: the request ids allocated, in order
    lastEvent,          \* history: the last WorkerTask operation
    terminated,         \* terminate() was called: the worker delivers no more events
    \* ---- TaskScheduler (TaskScheduler.ts)
    tasks,              \* TaskScheduler.tasks: the queue
    animationFrameId,   \* pending frame request, or Null
    startTime,
    nextTaskId,
    isPaused,
    pauseStartTime,
    idleTime,
    now,                \* performance.now()
    delays,             \* the Tasks returned by delay(), with their closure's taskId
    stokens,            \* the CancellationTokens handed to delay()
    fired,              \* history: per delay Task, how often its callback fired
    pauses,             \* history: number of pause() calls that paused
    lastFrame,          \* history: the entries the frame callback just fired, in order
    \* ---- GPU executors
    gpu,                \* the state of one executeGpuCompute* invocation
    \* ---- TaskFactory (whenAll, whenAny, parallelFor)
    fmode,              \* which combinator the scenario calls
    fpc,                \* "before" the call, "called", or "threw"
    finputs,            \* the input Tasks (parallelFor: the Tasks of the iterations)
    ftoken,             \* isCancellationRequested of the token given to parallelFor
    fjoin,              \* the promise of Promise.all / Promise.race
    fvalues,            \* the values array Promise.all fills
    fqueue,             \* the microtask queue
    fcombined,          \* the Task the combinator returned
    fsettled,           \* history: input indices in the order they settled
    fatCall,            \* history: the inputs that were settled when the call was made
    fobserved,          \* history: input indices in the order the join observed them
    flaunched,          \* history: the body(i) invocations of parallelFor
    \* ---- createGpuArgumentBuffer
    args,               \* one call: the schema, the loop position, offset, tempBuffer, view
    \* ---- extractTransferables
    xt                  \* one call: the argument graph, the recursion stack, transfers

varsTask   == <<task, taskPc, taskCalls, cont, read>>
varsToken  == <<token, invoked, registeredBefore, cancelCalls, registerCalls>>
varsWorker == <<nextId, pending, wtasks, wtokens, outbox, issued, lastEvent, terminated>>
varsSched  == <<tasks, animationFrameId, startTime, nextTaskId, isPaused,
                pauseStartTime, idleTime, now, delays, stokens, fired, pauses,
                lastFrame>>
varsGpu    == <<gpu>>
varsFactory == <<fmode, fpc, finputs, ftoken, fjoin, fvalues, fqueue, fcombined,
                 fsettled, fatCall, fobserved, flaunched>>
varsArgs   == <<args>>
varsXt     == <<xt>>
vars       == <<varsTask, varsToken, varsWorker, varsSched, varsGpu, varsFactory, varsArgs,
                varsXt>>

\* What the actions of one component leave alone.
othersTask   == <<varsToken, varsWorker, varsSched, varsGpu, varsFactory, varsArgs, varsXt>>
othersToken  == <<varsTask, varsWorker, varsSched, varsGpu, varsFactory, varsArgs, varsXt>>
othersWorker == <<varsTask, varsToken, varsSched, varsGpu, varsFactory, varsArgs, varsXt>>
othersSched  == <<varsTask, varsToken, varsWorker, varsGpu, varsFactory, varsArgs, varsXt>>
othersGpu    == <<varsTask, varsToken, varsWorker, varsSched, varsFactory, varsArgs, varsXt>>
othersArgs   == <<varsTask, varsToken, varsWorker, varsSched, varsGpu, varsFactory, varsXt>>
othersXt     == <<varsTask, varsToken, varsWorker, varsSched, varsGpu, varsFactory,
                 varsArgs>>
othersFactory == <<varsTask, varsToken, varsWorker, varsSched, varsGpu, varsArgs, varsXt>>

Null == -1

\* RECURSIVE declarations
RECURSIVE RunCallbacks(_, _, _)
RECURSIVE RunCallbacksNoCatch(_, _, _)
RECURSIVE InvokeCallback(_, _, _)
RECURSIVE RegisterCallback(_, _, _)
RECURSIVE SignalCancel(_, _)
RECURSIVE RunWorkerCallbacks(_, _, _)
RECURSIVE InsertByTime(_, _)
RECURSIVE SortByTime(_)
RECURSIVE FireDue(_, _, _, _, _)
RECURSIVE RunDelayCallbacks(_, _, _)
RECURSIVE DestroyAll(_, _)
RECURSIVE UseAll(_, _)
RECURSIVE SeqsUpTo(_, _)
RECURSIVE ForLoop(_, _, _, _)
RECURSIVE ForLoopNoCheck(_, _, _, _)
RECURSIVE PowerOfTwo(_)
RECURSIVE Halvings(_)
RECURSIVE ExpectedPairs(_)
RECURSIVE ClaimedLayout(_, _)
RECURSIVE ReachableFrom(_, _)

-----------------------------------------------------------------------------
(***************************************************************************)
(* Values, errors, promises                                                *)
(***************************************************************************)

\* An error value: its class name, its message and the class name of the error
\* it carries as its cause ("none" when it has no cause).
Undefined == [name |-> "undefined", message |-> "", cause |-> "none"]

Error(msg) == [name |-> "Error", message |-> msg, cause |-> "none"]

\* new Error(msg, { cause: inner }): a plain Error that wraps another error.
ErrorWrapping(msg, inner) == [name |-> "Error", message |-> msg, cause |-> inner.name]

OperationCanceledError(msg) ==
    [name |-> "OperationCanceledError", message |-> msg, cause |-> "none"]

\* reason instanceof OperationCanceledError
IsOperationCanceledError(reason) == reason.name = "OperationCanceledError"

\* The host Promise: the first resolve / reject settles it, later ones are ignored.
PendingPromise == [state |-> "pending", value |-> "undefined", reason |-> Undefined]

PromiseResolve(p, v) ==
    IF p.state = "pending"
    THEN [state |-> "fulfilled", value |-> v, reason |-> Undefined]
    ELSE p

PromiseReject(p, r) ==
    IF p.state = "pending"
    THEN [state |-> "rejected", value |-> "undefined", reason |-> r]
    ELSE p

-----------------------------------------------------------------------------
(***************************************************************************)
(* Task<T>                                                                 *)
(***************************************************************************)

TerminalStatus == {"RanToCompletion", "Faulted", "Canceled"}

\* Field initialisers of class Task.
CreatedTask ==
    [currentStatus |-> "Created", resultValue |-> "undefined",
     error |-> Undefined, internalPromise |-> PendingPromise]

\* First statement of the constructor.
RunningTask == [CreatedTask EXCEPT !.currentStatus = "Running"]

\* Mutant of RejectedStatus: a cause that wraps a cancellation counts as one.
RejectedStatusUnwraps(reason) ==
    IF reason.name = "OperationCanceledError" \/ reason.cause = "OperationCanceledError"
    THEN "Canceled" ELSE "Faulted"

\* The classification of a rejection cause.
RejectedStatus(reason) ==
    IF IsOperationCanceledError(reason) THEN "Canceled" ELSE "Faulted"

\* The resolve function handed to the executor.
TaskResolve(t, value) ==
    [t EXCEPT !.resultValue = value,
              !.currentStatus = "RanToCompletion",
              !.internalPromise = PromiseResolve(t.internalPromise, value)]

\* The reject function handed to the executor.
TaskReject(t, reason) ==
    [t EXCEPT !.error = reason,
              !.currentStatus = RejectedStatus(reason),
              !.internalPromise = PromiseReject(t.internalPromise, reason)]

\* Mutant of TaskCatch: no catch block, the Task is left as it was.
TaskCatchPropagates(t, e) == t

\* The catch block around the executor call.
TaskCatch(t, e) ==
    [t EXCEPT !.error = e,
              !.currentStatus = RejectedStatus(e),
              !.internalPromise = PromiseReject(t.internalPromise, e)]

\* new Task(executor) whose executor only calls reject(reason).
RejectedTask(reason) == TaskReject(RunningTask, reason)

MaxCalls == 3

TaskValues == {"v1", "v2"}

TaskReasons ==
    {Error("boom"), OperationCanceledError("The operation was canceled."),
     ErrorWrapping("wrapped", OperationCanceledError("The operation was canceled."))}

\* What fn, the argument of continueWith, does when it is invoked: it returns
\* a plain value, throws, or returns a thenable that settles later.
FnBehaviours ==
    {[kind |-> "returns", value |-> "f1", error |-> Undefined],
     [kind |-> "thenable", value |-> "undefined", error |-> Undefined]}
        \cup {[kind |-> "throws", value |-> "undefined", error |-> e] :
                 e \in {Error("fn"), OperationCanceledError("fn")}}

NoOutcome == [ok |-> TRUE, value |-> "undefined", reason |-> Undefined]

\* How the thenable returned by fn settles.
ThenableOutcomes ==
    {[ok |-> TRUE, value |-> "f2", reason |-> Undefined],
     [ok |-> FALSE, value |-> "undefined", reason |-> Error("fn")],
     [ok |-> FALSE, value |-> "undefined", reason |-> OperationCanceledError("fn")]}

\* No continueWith call was made.
NoContinuation ==
    [pc |-> "none", fn |-> [kind |-> "none", value |-> "undefined", error |-> Undefined],
     calls |-> 0, seen |-> "none", task |-> CreatedTask, outcome |-> NoOutcome]

\* try { Promise.resolve(continuation(this)).then(resolve, reject) } catch (e) { reject(e) }
RunContinuation(c, t) ==
    IF c.fn.kind = "throws"
    THEN [c EXCEPT !.calls = @ + 1, !.seen = t.currentStatus,
                   !.task = TaskReject(@, c.fn.error), !.pc = "done"]
    ELSE IF c.fn.kind = "returns"
    THEN [c EXCEPT !.calls = @ + 1, !.seen = t.currentStatus, !.pc = "resolving",
                   !.outcome = [ok |-> TRUE, value |-> c.fn.value, reason |-> Undefined]]
    ELSE [c EXCEPT !.calls = @ + 1, !.seen = t.currentStatus, !.pc = "adopting"]

\* Mutant of ContinuationJob: internalPromise.then(onFulfilled) only, a rejection
\* of t passes through to the returned Task.
ContinuationJobThenOnly(c, t) ==
    IF t.internalPromise.state = "fulfilled"
    THEN RunContinuation(c, t)
    ELSE [c EXCEPT !.task = TaskReject(@, t.internalPromise.reason), !.pc = "done"]

\* The reaction of this.internalPromise.then(onFulfilled, onRejected): both
\* handlers run the continuation.
ContinuationJob(c, t) ==
    IF t.internalPromise.state = "fulfilled"
    THEN RunContinuation(c, t)
    ELSE RunContinuation(c, t)

\* Mutant of Result: a Task that did not run to completion reads as undefined.
ResultOrDefault(t) ==
    IF t.currentStatus = "RanToCompletion"
    THEN [kind |-> "returns", value |-> t.resultValue, error |-> Undefined]
    ELSE [kind |-> "returns", value |-> "undefined", error |-> Undefined]

\* What a read of t.result does: it returns a value or throws an error.
Result(t) ==
    IF t.currentStatus = "RanToCompletion"
    THEN [kind |-> "returns", value |-> t.resultValue, error |-> Undefined]
    ELSE IF t.currentStatus = "Faulted"
    THEN [kind |-> "throws", value |-> "undefined", error |-> t.error]
    ELSE IF t.currentStatus = "Canceled"
    THEN [kind |-> "throws", value |-> "undefined",
          error |-> OperationCanceledError("Cannot access result of a Canceled Task.")]
    ELSE [kind |-> "throws", value |-> "undefined",
          error |-> Error("Task has not completed successfully.")]

NotRead == [kind |-> "none", value |-> "undefined", error |-> Undefined]

TaskIdle ==
    /\ task = CreatedTask
    /\ taskPc = "new"
    /\ taskCalls = 0
    /\ cont = NoContinuation
    /\ read = NotRead

InitTask == TaskIdle

\* The constructor starts: status Running, the executor is entered.
TaskConstruct ==
    /\ taskPc = "new"
    /\ task' = [task EXCEPT !.currentStatus = "Running"]
    /\ taskPc' = "executor"
    /\ UNCHANGED <<taskCalls, cont, read>>
    /\ UNCHANGED othersTask

\* The executor (or code it handed resolve to) calls resolve(value).
TaskCallResolve ==
    /\ taskPc \in {"executor", "returned", "threw"}
    /\ taskCalls < MaxCalls
    /\ \E v \in TaskValues : task' = TaskResolve(task, v)
    /\ taskCalls' = taskCalls + 1
    /\ UNCHANGED <<taskPc, cont, read>>
    /\ UNCHANGED othersTask

\* The executor (or code it handed reject to) calls reject(reason).
TaskCallReject ==
    /\ taskPc \in {"executor", "returned", "threw"}
    /\ taskCalls < MaxCalls
    /\ \E r \in TaskReasons : task' = TaskReject(task, r)
    /\ taskCalls' = taskCalls + 1
    /\ UNCHANGED <<taskPc, cont, read>>
    /\ UNCHANGED othersTask

\* The executor throws synchronously.
TaskExecutorThrow ==
    /\ taskPc = "executor"
    /\ taskCalls < MaxCalls
    /\ \E e \in TaskReasons : task' = TaskCatch(task, e)
    /\ taskCalls' = taskCalls + 1
    /\ taskPc' = "threw"
    /\ UNCHANGED <<cont, read>>
    /\ UNCHANGED othersTask

\* The executor returns normally.
TaskExecutorReturn ==
    /\ taskPc = "executor"
    /\ taskPc' = "returned"
    /\ UNCHANGED <<task, taskCalls, cont, read>>
    /\ UNCHANGED othersTask

\* t.continueWith(fn) on the constructed Task: the new Task's executor subscribes
\* to t's internal promise and returns.
ContinueWith ==
    /\ taskPc \in {"returned", "threw"}
    /\ cont.pc = "none"
    /\ \E f \in FnBehaviours :
         cont' = [cont EXCEPT !.pc = "waiting", !.fn = f, !.task = RunningTask]
    /\ UNCHANGED <<task, taskPc, taskCalls, read>>
    /\ UNCHANGED othersTask

\* The reaction job of the subscription runs: t's internal promise is settled.
ContinuationRun ==
    /\ cont.pc = "waiting"
    /\ task.internalPromise.state # "pending"
    /\ cont' = ContinuationJob(cont, task)
    /\ UNCHANGED <<task, taskPc, taskCalls, read>>
    /\ UNCHANGED othersTask

\* The thenable fn returned settles.
ContinuationThenableSettles ==
    /\ cont.pc = "adopting"
    /\ \E o \in ThenableOutcomes : cont' = [cont EXCEPT !.pc = "resolving", !.outcome = o]
    /\ UNCHANGED <<task, taskPc, taskCalls, read>>
    /\ UNCHANGED othersTask

\* The reaction of Promise.resolve(...).then(resolve, reject) runs.
ContinuationDeliver ==
    /\ cont.pc = "resolving"
    /\ cont' = [cont EXCEPT
                  !.pc = "done",
                  !.task = IF cont.outcome.ok THEN TaskResolve(@, cont.outcome.value)
                           ELSE TaskReject(@, cont.outcome.reason)]
    /\ UNCHANGED <<task, taskPc, taskCalls, read>>
    /\ UNCHANGED othersTask

\* A read of t.result on the constructed Task.
ReadResult ==
    /\ taskPc \in {"returned", "threw"}
    /\ read' = Result(task)
    /\ read' # read
    /\ UNCHANGED <<task, taskPc, taskCalls, cont>>
    /\ UNCHANGED othersTask

NextTask ==
    \/ TaskConstruct
    \/ TaskCallResolve
    \/ TaskCallReject
    \/ TaskExecutorThrow
    \/ TaskExecutorReturn
    \/ ContinueWith
    \/ ContinuationRun
    \/ ContinuationThenableSettles
    \/ ContinuationDeliver
    \/ ReadResult

-----------------------------------------------------------------------------
(***************************************************************************)
(* CancellationToken / CancellationTokenSource                             *)
(***************************************************************************)

\* Field initialisers of class CancellationToken.
NewToken == [isCancellationRequested |-> FALSE, callbacks |-> <<>>]

MaxCallbacks == 3

\* What a registered callback does when it is invoked:
\*   plain      returns
\*   throws     throws
\*   recancel   calls source.cancel() on the same source
\*   register   calls token.register(cb2) on the same token, cb2 a plain callback
CallbackKinds == {"plain", "throws", "recancel", "register"}

\* The callback registered by a "register" callback n.
Nested(n) == [n |-> n + 100, kind |-> "plain"]

\* Mutant of RegisterCallback: the callback is appended whatever the flag says.
RegisterCallbackAlwaysAppends(tok, cb, log) ==
    [token |-> [tok EXCEPT !.callbacks = Append(@, cb)], log |-> log]

\* register(callback): the state of the token and the log afterwards.
RegisterCallback(tok, cb, log) ==
    IF tok.isCancellationRequested
    THEN InvokeCallback(tok, cb, log)
    ELSE [token |-> [tok EXCEPT !.callbacks = Append(@, cb)], log |-> log]

\* One callback() call: the state of the token and the log afterwards. A
\* callback may call cancel() or register() on the token it is registered with.
InvokeCallback(tok, cb, log) ==
    IF cb.kind = "register"
    THEN RegisterCallback(tok, Nested(cb.n), Append(log, cb.n))
    ELSE IF cb.kind = "recancel"
    THEN SignalCancel(tok, Append(log, cb.n))
    ELSE [token |-> tok, log |-> Append(log, cb.n)]

\* Mutant of RunCallbacks: no try / catch, a throwing callback ends the forEach.
RunCallbacksNoCatch(tok, cbs, log) ==
    IF cbs = <<>> THEN [token |-> tok, log |-> log]
    ELSE IF Head(cbs).kind = "throws"
    THEN [token |-> tok, log |-> Append(log, Head(cbs).n)]
    ELSE LET r == InvokeCallback(tok, Head(cbs), log)
         IN RunCallbacksNoCatch(r.token, Tail(cbs), r.log)

\* forEach body of _signalCancel: try { callback() } catch { console.error },
\* over the callbacks that were in the list when forEach started.
RunCallbacks(tok, cbs, log) ==
    IF cbs = <<>> THEN [token |-> tok, log |-> log]
    ELSE LET r == InvokeCallback(tok, Head(cbs), log)
         IN RunCallbacks(r.token, Tail(cbs), r.log)

\* _signalCancel(): the state of the token and the log afterwards.
SignalCancel(tok, log) ==
    IF ~tok.isCancellationRequested
    THEN LET r == RunCallbacks([tok EXCEPT !.isCancellationRequested = TRUE],
                               tok.callbacks, log)
         IN [token |-> [r.token EXCEPT !.callbacks = <<>>], log |-> r.log]
    ELSE [token |-> tok, log |-> log]

TokenIdle ==
    /\ token = NewToken
    /\ invoked = <<>>
    /\ registeredBefore = <<>>
    /\ cancelCalls = 0
    /\ registerCalls = 0

InitToken == TokenIdle

MaxCancelCalls == 2

\* token.register(cb), cb a fresh callback of some kind.
TokenRegister ==
    /\ registerCalls < MaxCallbacks
    /\ registerCalls' = registerCalls + 1
    /\ \E k \in CallbackKinds :
         LET cb == [n |-> registerCalls + 1, kind |-> k]
             r  == RegisterCallback(token, cb, invoked)
         IN /\ token' = r.token
            /\ invoked' = r.log
            /\ registeredBefore' =
                 IF token.isCancellationRequested THEN registeredBefore
                 ELSE Append(registeredBefore, cb)
    /\ UNCHANGED cancelCalls
    /\ UNCHANGED othersToken

\* source.cancel()
TokenCancel ==
    /\ cancelCalls < MaxCancelCalls
    /\ LET r == SignalCancel(token, invoked)
       IN /\ token' = r.token
          /\ invoked' = r.log
    /\ cancelCalls' = cancelCalls + 1
    /\ UNCHANGED <<registeredBefore, registerCalls>>
    /\ UNCHANGED othersToken

NextToken ==
    \/ TokenRegister
    \/ TokenCancel

-----------------------------------------------------------------------------
(***************************************************************************)
(* WorkerTask                                                              *)
(***************************************************************************)

MaxDispatch == 2

\* The tokens callers hand to dispatchWorkerAction; "none" is an omitted token.
WTokens == {"t1"}

\* e.data.error / e.data.result of a response: an error message when the worker
\* reports a failure ("undefined" when the field is absent), and a result.
ResponseErrors == {"undefined", "boom"}

ResponseResults == {"r1"}

\* if (error): JavaScript truthiness of the error field.
Truthy(s) == s # "undefined" /\ s # ""

\* The error worker.postMessage throws when the message cannot be sent.
SendError == [name |-> "DataCloneError", message |-> "could not be cloned", cause |-> "none"]

CallMessage(id)   == [type |-> "call", id |-> id]

CancelMessage(id) == [type |-> "cancel", id |-> id]

Event(op, id, k, tok, error, result, threw) ==
    [op |-> op, id |-> id, k |-> k, tok |-> tok, error |-> error,
     result |-> result, threw |-> threw]

NoEvent == Event("none", Null, 0, "none", "undefined", "undefined", FALSE)

\* Map.set / Map.delete / Map.clear on WorkerTask.pending
MapSet(m, id, k) == [i \in DOMAIN m \cup {id} |-> IF i = id THEN k ELSE m[i]]

MapDelete(m, id) == [i \in DOMAIN m \ {id} |-> m[i]]

EmptyMap == [i \in {} |-> 0]

\* Settle the Task of dispatch k in the list ts.
SettleResolve(ts, k, value) == [ts EXCEPT ![k].task = TaskResolve(@, value)]

SettleReject(ts, k, reason) == [ts EXCEPT ![k].task = TaskReject(@, reason)]

\* Mutant of HandleMessagePending: the entry is not deleted.
HandleMessagePendingKeep(p, id) == p

\* handleMessage: the pending table afterwards.
HandleMessagePending(p, id) ==
    IF id \notin DOMAIN p THEN p ELSE MapDelete(p, id)

\* handleMessage: the Tasks afterwards.
HandleMessageTasks(ts, p, id, error, result) ==
    IF id \notin DOMAIN p THEN ts
    ELSE IF Truthy(error) THEN SettleReject(ts, p[id], Error(error))
    ELSE SettleResolve(ts, p[id], result)

\* handleError: every pending entry is rejected with new Error(e.message).
HandleErrorTasks(ts, p, message) ==
    [k \in DOMAIN ts |->
        IF \E id \in DOMAIN p : p[id] = k
        THEN [ts[k] EXCEPT !.task = TaskReject(@, Error(message))]
        ELSE ts[k]]

\* Mutant of PendingAfterPost: no rollback in the catch block.
PendingAfterPostNoRollback(p, id, k, postThrows) == MapSet(p, id, k)

\* The pending table after the try / catch around worker.postMessage.
PendingAfterPost(p, id, k, postThrows) ==
    IF postThrows THEN MapDelete(MapSet(p, id, k), id) ELSE MapSet(p, id, k)

\* The Task after the try / catch around worker.postMessage.
TaskAfterPost(t, postThrows) ==
    IF postThrows THEN TaskReject(t, SendError) ELSE t

\* Mutant of WorkerCancelCallback: the Task is rejected, no message is posted.
WorkerCancelCallbackNoPost(st, cb) ==
    [tasks  |-> SettleReject(st.tasks, cb.k,
                             OperationCanceledError("Worker task was canceled.")),
     outbox |-> st.outbox]

\* The cancellation callback dispatchWorkerAction registers for request id:
\* worker.postMessage({cancel: id}); reject(new OperationCanceledError(..)).
WorkerCancelCallback(st, cb) ==
    [tasks  |-> SettleReject(st.tasks, cb.k,
                             OperationCanceledError("Worker task was canceled.")),
     outbox |-> Append(st.outbox, CancelMessage(cb.id))]

\* forEach of _signalCancel over the callbacks of a worker token.
RunWorkerCallbacks(cbs, ts, ob) ==
    IF cbs = <<>> THEN [tasks |-> ts, outbox |-> ob]
    ELSE LET st == WorkerCancelCallback([tasks |-> ts, outbox |-> ob], Head(cbs))
         IN RunWorkerCallbacks(Tail(cbs), st.tasks, st.outbox)

WorkerIdle ==
    /\ nextId = 0
    /\ pending = EmptyMap
    /\ wtasks = <<>>
    /\ wtokens = [t \in WTokens |-> NewToken]
    /\ outbox = <<>>
    /\ issued = <<>>
    /\ lastEvent = NoEvent
    /\ terminated = FALSE

InitWorker == WorkerIdle

\* dispatchWorkerAction(functionName, args, transfer, token) with a token whose
\* cancellation was already requested: rejected before anything is allocated.
DispatchCanceled ==
    /\ Len(wtasks) < MaxDispatch
    /\ \E tok \in WTokens :
        /\ wtokens[tok].isCancellationRequested
        /\ wtasks' = Append(wtasks,
             [task  |-> TaskReject(RunningTask,
                          OperationCanceledError("Worker task was canceled before dispatch.")),
              id    |-> Null,
              token |-> tok])
        /\ lastEvent' = Event("dispatchCanceled", Null, Len(wtasks) + 1, tok,
                              "undefined", "undefined", FALSE)
    /\ UNCHANGED <<nextId, pending, wtokens, outbox, issued>>
    /\ UNCHANGED terminated
    /\ UNCHANGED othersWorker

\* dispatchWorkerAction with a functionName that is not a string: the executor
\* throws and the Task constructor catches it.
DispatchInvalid ==
    /\ Len(wtasks) < MaxDispatch
    /\ \E tok \in WTokens \cup {"none"} :
        /\ tok # "none" => ~wtokens[tok].isCancellationRequested
        /\ wtasks' = Append(wtasks,
             [task  |-> TaskCatch(RunningTask,
                          Error("Invalid functionName: must be a string")),
              id    |-> Null,
              token |-> tok])
        /\ lastEvent' = Event("dispatchInvalid", Null, Len(wtasks) + 1, tok,
                              "undefined", "undefined", TRUE)
    /\ UNCHANGED <<nextId, pending, wtokens, outbox, issued>>
    /\ UNCHANGED terminated
    /\ UNCHANGED othersWorker

\* dispatchWorkerAction that reaches the send; postMessage may throw.
Dispatch ==
    /\ Len(wtasks) < MaxDispatch
    /\ \E tok \in WTokens \cup {"none"}, postThrows \in BOOLEAN :
        LET id == nextId
            k  == Len(wtasks) + 1
        IN /\ tok # "none" => ~wtokens[tok].isCancellationRequested
           /\ nextId' = nextId + 1
           /\ issued' = Append(issued, id)
           /\ pending' = PendingAfterPost(pending, id, k, postThrows)
           /\ wtasks' = Append(wtasks,
                [task  |-> TaskAfterPost(RunningTask, postThrows),
                 id    |-> id,
                 token |-> tok])
           /\ outbox' = IF postThrows THEN outbox ELSE Append(outbox, CallMessage(id))
           /\ wtokens' =
                IF tok = "none" THEN wtokens
                ELSE [wtokens EXCEPT ![tok] =
                        RegisterCallback(@, [id |-> id, k |-> k], <<>>).token]
           /\ lastEvent' = Event("dispatch", id, k, tok, "undefined", "undefined",
                                 postThrows)
    /\ UNCHANGED terminated
    /\ UNCHANGED othersWorker

\* The ids of the requests the worker received.
PostedIds == {outbox[i].id : i \in {j \in DOMAIN outbox : outbox[j].type = "call"}}

\* worker.onmessage: a response {id, result | error} arrives (possibly again).
Response ==
    /\ ~terminated
    /\ \E id \in PostedIds, error \in ResponseErrors, result \in ResponseResults :
           /\ pending' = HandleMessagePending(pending, id)
           /\ wtasks' = HandleMessageTasks(wtasks, pending, id, error,
                                           IF Truthy(error) THEN "undefined" ELSE result)
           /\ lastEvent' = Event("response", id, 0, "none", error,
                                 IF Truthy(error) THEN "undefined" ELSE result, FALSE)
           /\ UNCHANGED <<nextId, wtokens, outbox, issued>>
    /\ UNCHANGED terminated
    /\ UNCHANGED othersWorker

\* worker.onerror
WorkerError ==
    /\ ~terminated
    /\ wtasks' = HandleErrorTasks(wtasks, pending, "worker crashed")
    /\ pending' = EmptyMap
    /\ lastEvent' = Event("error", Null, 0, "none", "worker crashed", "undefined", FALSE)
    /\ UNCHANGED <<nextId, wtokens, outbox, issued>>
    /\ UNCHANGED terminated
    /\ UNCHANGED othersWorker

\* source.cancel() on the source of one of the tokens.
WorkerCancel ==
    /\ \E tok \in WTokens :
           LET st == RunWorkerCallbacks(wtokens[tok].callbacks, wtasks, outbox)
           IN /\ ~wtokens[tok].isCancellationRequested
              /\ wtokens' = [wtokens EXCEPT ![tok] =
                               [isCancellationRequested |-> TRUE, callbacks |-> <<>>]]
              /\ wtasks' = st.tasks
              /\ outbox' = st.outbox
              /\ lastEvent' = Event("cancel", Null, 0, tok, "undefined", "undefined", FALSE)
              /\ UNCHANGED <<nextId, pending, issued>>
    /\ UNCHANGED terminated
    /\ UNCHANGED othersWorker

\* terminate(): worker.terminate(); the pending table and the Tasks are left as
\* they are. A terminated worker sends no message and no error event.
Terminate ==
    /\ ~terminated
    /\ terminated' = TRUE
    /\ lastEvent' = Event("terminate", Null, 0, "none", "undefined", "undefined", FALSE)
    /\ UNCHANGED <<nextId, pending, wtasks, wtokens, outbox, issued>>
    /\ UNCHANGED othersWorker

NextWorker ==
    \/ DispatchCanceled
    \/ DispatchInvalid
    \/ Dispatch
    \/ Response
    \/ WorkerError
    \/ WorkerCancel
    \/ Terminate

-----------------------------------------------------------------------------
(***************************************************************************)
(* TaskScheduler                                                           *)
(***************************************************************************)

MaxTime == 3

MaxDelays == 2

MaxPauses == 2

\* addTask calls with a plain callback
MaxAdds == 3

DelayValues == {1, 2}

STokens == {"s1"}

\* The callback of an entry added by addTask directly: it changes no state of
\* the scheduler. (The callback of a delay Task is the index of that Task.)
PlainCallback == 0

\* The handle requestAnimationFrame returns while a frame request is pending.
FrameHandle == 1

\* The scheduler object, as one record.
Sched ==
    [tasks |-> tasks, animationFrameId |-> animationFrameId, startTime |-> startTime,
     nextTaskId |-> nextTaskId, isPaused |-> isPaused,
     pauseStartTime |-> pauseStartTime, idleTime |-> idleTime]

SetSched(S) ==
    /\ tasks' = S.tasks
    /\ animationFrameId' = S.animationFrameId
    /\ startTime' = S.startTime
    /\ nextTaskId' = S.nextTaskId
    /\ isPaused' = S.isPaused
    /\ pauseStartTime' = S.pauseStartTime
    /\ idleTime' = S.idleTime

\* Array.prototype.sort((a, b) => a.time - b.time): a stable sort by time.
InsertByTime(sorted, e) ==
    IF sorted = <<>> THEN <<e>>
    ELSE IF e.time < Head(sorted).time THEN <<e>> \o sorted
    ELSE <<Head(sorted)>> \o InsertByTime(Tail(sorted), e)

\* Mutant of SortByTime: the queue is left in insertion order.
SortByTimeInsertionOrder(q) == q

SortByTime(q) ==
    IF q = <<>> THEN <<>>
    ELSE InsertByTime(SortByTime(SubSeq(q, 1, Len(q) - 1)), q[Len(q)])

\* stop()
StopOp(S) ==
    IF S.animationFrameId # Null
    THEN [S EXCEPT !.animationFrameId = Null, !.startTime = Null]
    ELSE S

\* Mutant of StartOp: resuming does not shift the queued entries.
StartOpNoShift(S, t) ==
    IF S.animationFrameId # Null THEN S
    ELSE LET resumed == S.isPaused /\ S.pauseStartTime # Null /\ S.pauseStartTime # 0
             idle    == IF resumed THEN S.idleTime + (t - S.pauseStartTime)
                        ELSE S.idleTime
         IN [S EXCEPT !.idleTime = idle,
                      !.pauseStartTime = IF resumed THEN Null ELSE @,
                      !.isPaused = IF resumed THEN FALSE ELSE @,
                      !.startTime = t - idle,
                      !.animationFrameId = FrameHandle]

\* start() at time t
StartOp(S, t) ==
    IF S.animationFrameId # Null THEN S
    ELSE LET resumed == S.isPaused /\ S.pauseStartTime # Null /\ S.pauseStartTime # 0
             idle    == IF resumed THEN S.idleTime + (t - S.pauseStartTime)
                        ELSE S.idleTime
             shifted == IF resumed
                        THEN SortByTime([i \in DOMAIN S.tasks |->
                                 [S.tasks[i] EXCEPT !.time = @ + idle]])
                        ELSE S.tasks
         IN [S EXCEPT !.idleTime = idle,
                      !.pauseStartTime = IF resumed THEN Null ELSE @,
                      !.isPaused = IF resumed THEN FALSE ELSE @,
                      !.tasks = shifted,
                      !.startTime = t - idle,
                      !.animationFrameId = FrameHandle]

\* addTask(callback, delay) at time t; the id it returns is S.nextTaskId.
AddTaskOp(S, cb, delay, t) ==
    StartOp([S EXCEPT !.nextTaskId = @ + 1,
                      !.tasks = SortByTime(Append(@,
                          [id |-> S.nextTaskId, time |-> delay + S.idleTime,
                           callback |-> cb]))],
            t)

\* removeTask(taskId)
RemoveTaskOp(S, taskId) ==
    IF \E i \in DOMAIN S.tasks : S.tasks[i].id = taskId
    THEN LET i    == CHOOSE j \in DOMAIN S.tasks :
                        /\ S.tasks[j].id = taskId
                        /\ \A m \in 1..(j - 1) : S.tasks[m].id # taskId
             rest == SubSeq(S.tasks, 1, i - 1) \o SubSeq(S.tasks, i + 1, Len(S.tasks))
         IN IF rest = <<>> THEN StopOp([S EXCEPT !.tasks = rest])
            ELSE [S EXCEPT !.tasks = rest]
    ELSE S

\* rescheduleTask(taskId, newDelay)
RescheduleTaskOp(S, taskId, newDelay) ==
    IF \E i \in DOMAIN S.tasks : S.tasks[i].id = taskId
    THEN LET i == CHOOSE j \in DOMAIN S.tasks :
                      /\ S.tasks[j].id = taskId
                      /\ \A m \in 1..(j - 1) : S.tasks[m].id # taskId
         IN [S EXCEPT !.tasks = SortByTime([@ EXCEPT ![i].time = newDelay + S.idleTime])]
    ELSE S

\* pause() at time t
PauseOp(S, t) ==
    IF S.animationFrameId # Null /\ ~S.isPaused
    THEN [S EXCEPT !.animationFrameId = Null, !.pauseStartTime = t, !.isPaused = TRUE]
    ELSE S

\* delayCallback of delay Task d: the Task afterwards.
DelayCallback(dl, tokens) ==
    IF dl.taskId # Null
    THEN IF dl.token # "none" /\ tokens[dl.token].isCancellationRequested
         THEN [dl EXCEPT !.task = TaskReject(@, Error("Task was canceled."))]
         ELSE [dl EXCEPT !.task = TaskResolve(@, "undefined")]
    ELSE dl

\* The while loop of executeTasks: shift and call every head entry that is due.
\* Returns the queue, the delay Tasks and the fire counts afterwards.
FireDue(q, elapsed, ds, fc, log) ==
    IF q # <<>> /\ Head(q).time <= elapsed
    THEN LET d == Head(q).callback
         IN FireDue(Tail(q), elapsed,
                    IF d = PlainCallback THEN ds
                    ELSE [ds EXCEPT ![d] = DelayCallback(@, stokens)],
                    IF d = PlainCallback THEN fc ELSE [fc EXCEPT ![d] = @ + 1],
                    Append(log, Head(q)))
    ELSE [tasks |-> q, delays |-> ds, fired |-> fc, log |-> log]

\* The scheduler after the frame callback executeTasks ran on queue q.
RearmOp(S, q) ==
    IF q # <<>> THEN [S EXCEPT !.tasks = q, !.animationFrameId = FrameHandle]
    ELSE StopOp([S EXCEPT !.tasks = q])

\* The cancellation callback delay() registers for delay Task d.
DelayCancelCallback(st, d) ==
    LET dl == st.delays[d]
        S2 == IF dl.taskId # Null THEN RemoveTaskOp(st.sched, dl.taskId) ELSE st.sched
    IN [sched  |-> S2,
        delays |-> [st.delays EXCEPT
                      ![d] = [dl EXCEPT !.taskId = Null,
                                        !.task = TaskReject(@, Error("Task was canceled."))]]]

\* forEach of _signalCancel over the callbacks of a scheduler token.
RunDelayCallbacks(cbs, S, ds) ==
    IF cbs = <<>> THEN [sched |-> S, delays |-> ds]
    ELSE LET st == DelayCancelCallback([sched |-> S, delays |-> ds], Head(cbs))
         IN RunDelayCallbacks(Tail(cbs), st.sched, st.delays)

SchedIdle ==
    /\ tasks = <<>>
    /\ animationFrameId = Null
    /\ startTime = Null
    /\ nextTaskId = 0
    /\ isPaused = FALSE
    /\ pauseStartTime = Null
    /\ idleTime = 0
    /\ now = 1
    /\ delays = <<>>
    /\ stokens = [t \in STokens |-> NewToken]
    /\ fired = <<>>
    /\ pauses = 0
    /\ lastFrame = <<>>

InitSched == SchedIdle

\* performance.now() advances.
Tick ==
    /\ now < MaxTime
    /\ now' = now + 1
    /\ UNCHANGED <<tasks, animationFrameId, startTime, nextTaskId, isPaused,
                   pauseStartTime, idleTime, delays, stokens, fired, pauses>>
    /\ lastFrame' = <<>>
    /\ UNCHANGED othersSched

\* delay(ms, token) with a token whose cancellation was already requested.
DelayCanceled ==
    /\ Len(delays) < MaxDelays
    /\ \E tok \in STokens :
        /\ stokens[tok].isCancellationRequested
        /\ delays' = Append(delays,
             [task |-> RejectedTask(Error("Task was canceled.")),
              taskId |-> Null, token |-> tok, delay |-> 0, at |-> now,
              idleAt |-> idleTime])
    /\ fired' = Append(fired, 0)
    /\ UNCHANGED <<tasks, animationFrameId, startTime, nextTaskId, isPaused,
                   pauseStartTime, idleTime, now, stokens, pauses>>
    /\ lastFrame' = <<>>
    /\ UNCHANGED othersSched

\* delay(ms, token) that schedules an entry.
Delay ==
    /\ Len(delays) < MaxDelays
    /\ \E ms \in DelayValues, tok \in STokens \cup {"none"} :
        LET d == Len(delays) + 1
        IN /\ tok # "none" => ~stokens[tok].isCancellationRequested
           /\ SetSched(AddTaskOp(Sched, d, ms, now))
           /\ delays' = Append(delays,
                [task |-> RunningTask, taskId |-> nextTaskId, token |-> tok,
                 delay |-> ms, at |-> now,
                 idleAt |-> AddTaskOp(Sched, d, ms, now).idleTime])
           /\ stokens' =
                IF tok = "none" THEN stokens
                ELSE [stokens EXCEPT ![tok] = RegisterCallback(@, d, <<>>).token]
    /\ fired' = Append(fired, 0)
    /\ UNCHANGED <<now, pauses>>
    /\ lastFrame' = <<>>
    /\ UNCHANGED othersSched

\* The frame callback executeTasks(currentTime) runs.
Frame ==
    /\ animationFrameId # Null
    /\ IF startTime = Null
       THEN /\ UNCHANGED <<tasks, animationFrameId, startTime, nextTaskId, isPaused,
                           pauseStartTime, idleTime, delays, fired>>
            /\ lastFrame' = <<>>
       ELSE LET r == FireDue(tasks, now - startTime, delays, fired, <<>>)
            IN /\ SetSched(RearmOp(Sched, r.tasks))
               /\ delays' = r.delays
               /\ fired' = r.fired
               /\ lastFrame' = r.log
    /\ UNCHANGED <<now, stokens, pauses>>
    /\ UNCHANGED othersSched

\* pause()
Pause ==
    /\ animationFrameId # Null /\ ~isPaused
    /\ pauses < MaxPauses
    /\ pauses' = pauses + 1
    /\ lastFrame' = <<>>
    /\ SetSched(PauseOp(Sched, now))
    /\ UNCHANGED <<now, delays, stokens, fired>>
    /\ UNCHANGED othersSched

\* start(), called by the user (resume)
Start ==
    /\ animationFrameId = Null
    /\ SetSched(StartOp(Sched, now))
    /\ UNCHANGED <<now, delays, stokens, fired, pauses>>
    /\ lastFrame' = <<>>
    /\ UNCHANGED othersSched

\* addTask(callback, delay), called by the user with a plain callback.
AddTask ==
    /\ nextTaskId < MaxAdds
    /\ \E ms \in DelayValues : SetSched(AddTaskOp(Sched, PlainCallback, ms, now))
    /\ UNCHANGED <<now, delays, stokens, fired, pauses>>
    /\ lastFrame' = <<>>
    /\ UNCHANGED othersSched

\* removeTask(taskId), called by the user with an id addTask returned.
RemoveTask ==
    /\ \E taskId \in 0..(nextTaskId - 1) : SetSched(RemoveTaskOp(Sched, taskId))
    /\ UNCHANGED <<now, delays, stokens, fired, pauses>>
    /\ lastFrame' = <<>>
    /\ UNCHANGED othersSched

\* rescheduleTask(taskId, newDelay), called by the user.
RescheduleTask ==
    /\ \E taskId \in 0..(nextTaskId - 1), newDelay \in DelayValues :
           SetSched(RescheduleTaskOp(Sched, taskId, newDelay))
    /\ UNCHANGED <<now, delays, stokens, fired, pauses>>
    /\ lastFrame' = <<>>
    /\ UNCHANGED othersSched

\* source.cancel() on the source of one of the tokens handed to delay().
SchedCancel ==
    /\ \E tok \in STokens :
           LET st == RunDelayCallbacks(stokens[tok].callbacks, Sched, delays)
           IN /\ ~stokens[tok].isCancellationRequested
              /\ stokens' = [stokens EXCEPT ![tok] =
                               [isCancellationRequested |-> TRUE, callbacks |-> <<>>]]
              /\ SetSched(st.sched)
              /\ delays' = st.delays
              /\ UNCHANGED <<now, fired, pauses>>
              /\ lastFrame' = <<>>
    /\ UNCHANGED othersSched

NextSched ==
    \/ Tick
    \/ DelayCanceled
    \/ Delay
    \/ Frame
    \/ Pause
    \/ Start
    \/ SchedCancel

\* The scheduler driven through addTask, removeTask and rescheduleTask.
NextSchedOps ==
    \/ Tick
    \/ AddTask
    \/ RemoveTask
    \/ RescheduleTask
    \/ Frame
    \/ Pause
    \/ Start

-----------------------------------------------------------------------------
(***************************************************************************)
(* GPU executors: executeGpuComputeSinglePass, executeGpuComputeMultiPass,  *)
(* started by GpuTaskRunner.execute                                        *)
(***************************************************************************)

MaxInputs == 2

\* byteLength of the views a request carries: 6 is not a multiple of 4.
ByteLengths == {6, 16}

ArrayLengths == {0, 1, 2, 3, 4, 8}

MaxLog2 == 5

\* All sequences over S of length at most n.
SeqsUpTo(S, n) ==
    IF n = 0 THEN {<<>>}
    ELSE LET shorter == SeqsUpTo(S, n - 1)
         IN shorter \cup {Append(q, x) : q \in {r \in shorter : Len(r) = n - 1}, x \in S}

\* Mutant of Log2IsInteger: the logarithm is rounded down instead of tested.
Log2Truncated(N) == N >= 1

\* Number.isInteger(Math.log2(N))
Log2IsInteger(N) == \E k \in 0..MaxLog2 : 2^k = N

\* Math.log2(N) as the loop condition stage <= log2N sees it: the integer part
\* of the logarithm, and -1 for -Infinity (N = 0).
Log2(N) ==
    IF N < 1 THEN -1
    ELSE CHOOSE k \in 0..MaxLog2 : 2^k <= N /\ N < 2^(k + 1)

\* device.createBuffer({size, mappedAtCreation: true}) throws a RangeError when
\* size is not a multiple of 4; no buffer exists then.
CreateMappedThrows(byteLength) == byteLength % 4 # 0

\* device.queue.writeBuffer(buffer, 0, data) throws an OperationError when the
\* byte size of data is not a multiple of 4.
WriteBufferThrows(byteLength) == byteLength % 4 # 0

\* device.createBuffer: the new GPUBuffer is the last of g.buffers.
CreateBuffer(g, kind) ==
    [g EXCEPT !.buffers = Append(@, [kind |-> kind, state |-> "live", mapped |-> FALSE,
                                    usedAfterDestroy |-> FALSE, readOut |-> FALSE])]

NewBuffer(g) == Len(g.buffers) + 1

\* safeDestroy(buffer): buffer?.destroy() inside try / catch.
SafeDestroy(bufs, b) ==
    IF b = Null THEN bufs ELSE [bufs EXCEPT ![b].state = "destroyed", ![b].mapped = FALSE]

\* list.forEach(safeDestroy)
DestroyAll(bufs, list) ==
    IF list = <<>> THEN bufs ELSE DestroyAll(SafeDestroy(bufs, Head(list)), Tail(list))

\* A queue operation or a mapping call names buffer b; history: a buffer that
\* was destroyed by then is marked.
Use(bufs, b) ==
    IF b = Null THEN bufs
    ELSE IF bufs[b].state = "destroyed" THEN [bufs EXCEPT ![b].usedAfterDestroy = TRUE]
    ELSE bufs

UseAll(bufs, list) ==
    IF list = <<>> THEN bufs ELSE UseAll(Use(bufs, Head(list)), Tail(list))

\* Mutant of SubmitThenDestroy: the buffers are destroyed before the submit.
DestroyThenSubmit(bufs, used, destroyed) == UseAll(DestroyAll(bufs, destroyed), used)

\* device.queue.submit of commands that name the buffers `used`, followed by
\* destroyed.forEach(safeDestroy).
SubmitThenDestroy(bufs, used, destroyed) == DestroyAll(UseAll(bufs, used), destroyed)

\* getMappedRange().slice(0); unmap()
ReadOut(bufs, b) == [Use(bufs, b) EXCEPT ![b].readOut = TRUE, ![b].mapped = FALSE]

\* buffers.filter(b => b !== readbackBuffer)
Without(list, b) == SelectSeq(list, LAMBDA x : x # b)

CanceledError == OperationCanceledError("The operation was canceled.")

\* A throw before the try block: the promise rejects, no finally block runs.
RejectOutside(g, err) ==
    [g EXCEPT !.pc = "done", !.outcome = "rejected", !.cause = err,
              !.rtask = TaskReject(@, err)]

\* A throw inside the try block: the finally block runs next.
ThrowInside(g, err) == [g EXCEPT !.pc = "finally", !.cause = err]

\* The buffers the finally block of the single-pass executor destroys.
SinglePassFinallyList(g) == g.tracked

\* The buffers the finally block of the multi-pass executor destroys.
MultiPassFinallyList(g) == g.tracked

\* A request: inputs[i] is the byteLength of input i's data and readOnly[i] its
\* readOnly flag (FALSE also stands for an omitted flag).
GpuConfigs ==
    {c \in [type          : {"SINGLE_PASS", "MULTI_PASS"},
            inputs        : SeqsUpTo(ByteLengths, MaxInputs),
            readOnly      : SeqsUpTo(BOOLEAN, MaxInputs),
            computeParams : ByteLengths \cup {Null},
            argumentData  : ByteLengths \cup {Null},
            arrayLength   : ArrayLengths] :
        Len(c.readOnly) = Len(c.inputs)}

\* bindGroupLayoutEntries.push({binding: bindingIndex, buffer: {type}});
\* bindGroupEntries.push({binding: bindingIndex, resource: {buffer}}); bindingIndex++
Bind(g, type, buffer) ==
    [g EXCEPT !.bindings = Append(@, [binding |-> g.bindingIndex, type |-> type,
                                      buffer |-> buffer]),
              !.bindingIndex = @ + 1]

\* The binding type the single-pass executor gives an input.
SingleInputBindingType(readOnly) == "read-only-storage"

NewGpu(cfg) ==
    [pc |-> "start", cfg |-> cfg, cancelled |-> FALSE,
     buffers |-> <<>>, tracked |-> <<>>, storage |-> <<>>,
     paramsUniformBuffer |-> Null, argumentBuffer |-> Null, readbackBuffer |-> Null,
     outputBuffer |-> Null,
     i |-> 1, stage |-> 1, step |-> 1, submits |-> 0,
     events |-> <<>>, eventsAtCancel |-> Null,
     bindings |-> <<>>, bindingIndex |-> 0,
     uniform |-> <<>>, bindGroup |-> Null, dispatches |-> <<>>,
     atDeserializer |-> <<>>,
     outcome |-> "pending", cause |-> Undefined, rtask |-> RunningTask]

GpuIdleConfig ==
    [type |-> "SINGLE_PASS", inputs |-> <<>>, readOnly |-> <<>>, computeParams |-> Null,
     argumentData |-> Null, arrayLength |-> 0]

GpuIdle == gpu = NewGpu(GpuIdleConfig)

\* GpuTaskRunner.execute(task, token) calls the executor for the task's type.
InitGpu == \E cfg \in GpuConfigs : gpu = NewGpu(cfg)

\* The points where the executor is suspended and other code can run.
GpuAwaiting == gpu.pc \in {"start", "awaitAdapter", "awaitDevice", "awaitMap"}

\* source.cancel() on the request's token, while the executor is not running.
GpuCancel ==
    /\ GpuAwaiting
    /\ ~gpu.cancelled
    /\ gpu' = [gpu EXCEPT !.cancelled = TRUE, !.eventsAtCancel = Len(gpu.events)]
    /\ UNCHANGED othersGpu

\* checkCancellation(); navigator.gpu; requestAdapter() is awaited.
GpuStart ==
    /\ gpu.pc = "start"
    /\ \E hasGpu \in BOOLEAN :
         gpu' = IF gpu.cancelled THEN RejectOutside(gpu, CanceledError)
                ELSE IF ~hasGpu THEN RejectOutside(gpu, Error("WebGPU is not supported."))
                ELSE [gpu EXCEPT !.pc = "awaitAdapter"]
    /\ UNCHANGED othersGpu

\* requestAdapter() settled; checkCancellation(); requestDevice() is awaited.
GpuAdapter ==
    /\ gpu.pc = "awaitAdapter"
    /\ \E adapter \in BOOLEAN :
         gpu' = IF ~adapter THEN RejectOutside(gpu, Error("Failed to get GPU adapter."))
                ELSE IF gpu.cancelled THEN RejectOutside(gpu, CanceledError)
                ELSE [gpu EXCEPT !.pc = "awaitDevice"]
    /\ UNCHANGED othersGpu

\* requestDevice() settled; the multi-pass executor checks config.inputs.
GpuDevice ==
    /\ gpu.pc = "awaitDevice"
    /\ \E device \in BOOLEAN :
         gpu' = IF ~device THEN RejectOutside(gpu, Error("requestDevice failed"))
                ELSE IF gpu.cfg.type = "SINGLE_PASS" THEN [gpu EXCEPT !.pc = "s_inputs"]
                ELSE IF gpu.cfg.inputs = <<>>
                THEN RejectOutside(gpu,
                       Error("MultiPass compute requires at least one input buffer."))
                ELSE [gpu EXCEPT !.pc = "m_pow2"]
    /\ UNCHANGED othersGpu

\* ---- single pass

\* One iteration of the input loop: createBuffer, fill, unmap, buffers.push,
\* the two binding entries.
SingleInput ==
    /\ gpu.pc = "s_inputs"
    /\ gpu' =
        IF gpu.i > Len(gpu.cfg.inputs) THEN [gpu EXCEPT !.pc = "s_output"]
        ELSE IF CreateMappedThrows(gpu.cfg.inputs[gpu.i])
        THEN ThrowInside(gpu, Error("RangeError"))
        ELSE [Bind(CreateBuffer(gpu, "input"),
                   SingleInputBindingType(gpu.cfg.readOnly[gpu.i]), NewBuffer(gpu))
                 EXCEPT !.tracked = Append(@, NewBuffer(gpu)),
                        !.i = @ + 1]
    /\ UNCHANGED othersGpu

\* The output buffer: createBuffer, buffers.push.
SingleOutput ==
    /\ gpu.pc = "s_output"
    /\ gpu' = [Bind(CreateBuffer(gpu, "output"), "storage", NewBuffer(gpu))
                 EXCEPT !.tracked = Append(@, NewBuffer(gpu)),
                        !.outputBuffer = NewBuffer(gpu),
                        !.pc = "s_params"]
    /\ UNCHANGED othersGpu

\* The computeParams uniform: createBuffer, writeBuffer, buffers.push.
SingleParams ==
    /\ gpu.pc = "s_params"
    /\ gpu' =
        IF gpu.cfg.computeParams = Null THEN [gpu EXCEPT !.pc = "s_args"]
        ELSE IF WriteBufferThrows(gpu.cfg.computeParams)
        THEN ThrowInside(CreateBuffer(gpu, "params"), Error("OperationError"))
        ELSE [Bind(CreateBuffer(gpu, "params"), "uniform", NewBuffer(gpu))
                 EXCEPT !.tracked = Append(@, NewBuffer(gpu)),
                        !.pc = "s_args"]
    /\ UNCHANGED othersGpu

\* The argumentData uniform: createBuffer, writeBuffer, buffers.push.
SingleArgs ==
    /\ gpu.pc = "s_args"
    /\ gpu' =
        IF gpu.cfg.argumentData = Null THEN [gpu EXCEPT !.pc = "s_check"]
        ELSE IF WriteBufferThrows(gpu.cfg.argumentData)
        THEN ThrowInside(CreateBuffer(gpu, "argument"), Error("OperationError"))
        ELSE [Bind(CreateBuffer(gpu, "argument"), "uniform", NewBuffer(gpu))
                 EXCEPT !.tracked = Append(@, NewBuffer(gpu)),
                        !.pc = "s_check"]
    /\ UNCHANGED othersGpu

\* checkCancellation(); pipeline, bind group, dispatch; the readback buffer is
\* created and pushed; copy; submit; every buffer but the readback buffer is
\* destroyed; mapAsync is awaited.
SingleDispatch ==
    /\ gpu.pc = "s_check"
    /\ gpu' =
        IF gpu.cancelled THEN ThrowInside(gpu, CanceledError)
        ELSE LET g1 == CreateBuffer(gpu, "readback")
                 rb == NewBuffer(gpu)
                 tr == Append(gpu.tracked, rb)
             IN [g1 EXCEPT !.tracked = tr,
                           !.readbackBuffer = rb,
                           !.submits = @ + 1,
                           !.buffers = SubmitThenDestroy(@, tr, Without(tr, rb)),
                           !.pc = "awaitMap"]
    /\ UNCHANGED othersGpu

\* ---- multi pass

\* The power-of-two check on arrayLength.
MultiPowerOfTwo ==
    /\ gpu.pc = "m_pow2"
    /\ gpu' = IF ~Log2IsInteger(gpu.cfg.arrayLength)
              THEN ThrowInside(gpu,
                     Error("Array length must be a power of two for multi-pass algorithms."))
              ELSE [gpu EXCEPT !.pc = "m_inputs"]
    /\ UNCHANGED othersGpu

\* One iteration of the input loop: createBuffer, fill, unmap, push to
\* createdBuffers and storageBuffers.
MultiInput ==
    /\ gpu.pc = "m_inputs"
    /\ gpu' =
        IF gpu.i > Len(gpu.cfg.inputs) THEN [gpu EXCEPT !.pc = "m_params"]
        ELSE IF CreateMappedThrows(gpu.cfg.inputs[gpu.i])
        THEN ThrowInside(gpu, Error("RangeError"))
        ELSE [CreateBuffer(gpu, "input") EXCEPT !.tracked = Append(@, NewBuffer(gpu)),
                                                !.storage = Append(@, NewBuffer(gpu)),
                                                !.i = @ + 1]
    /\ UNCHANGED othersGpu

\* The words of a caller-supplied computeParams array (their values are the
\* caller's; no Uint32 equals this placeholder).
CallerWord == -2

\* paramsData: a copy of config.computeParams, or [0, 0, N, 0].
ParamsData(cfg) ==
    IF cfg.computeParams # Null THEN <<CallerWord, CallerWord, CallerWord, CallerWord>>
    ELSE <<0, 0, cfg.arrayLength, 0>>

\* The handle of the bind group createBindGroup returns before the loop.
BindGroupHandle == 1

\* The parameter uniform: paramsData is a Uint32Array, so its byte size is a
\* multiple of 4; createBuffer, writeBuffer, createdBuffers.push.
MultiParams ==
    /\ gpu.pc = "m_params"
    /\ gpu' = [CreateBuffer(gpu, "params") EXCEPT !.tracked = Append(@, NewBuffer(gpu)),
                                                  !.paramsUniformBuffer = NewBuffer(gpu),
                                                  !.uniform = ParamsData(gpu.cfg),
                                                  !.pc = "m_args"]
    /\ UNCHANGED othersGpu

\* The optional argument uniform: createBuffer, writeBuffer, createdBuffers.push;
\* then the shader module, layout, pipeline and bind group.
MultiArgs ==
    /\ gpu.pc = "m_args"
    /\ gpu' =
        IF gpu.cfg.argumentData = Null
        THEN [gpu EXCEPT !.pc = "m_loop", !.stage = 1, !.step = 1,
                         !.bindGroup = BindGroupHandle]
        ELSE IF WriteBufferThrows(gpu.cfg.argumentData)
        THEN ThrowInside([CreateBuffer(gpu, "argument") EXCEPT
                             !.argumentBuffer = NewBuffer(gpu)],
                         Error("OperationError"))
        ELSE [CreateBuffer(gpu, "argument") EXCEPT
                 !.tracked = Append(@, NewBuffer(gpu)),
                 !.argumentBuffer = NewBuffer(gpu),
                 !.bindGroup = BindGroupHandle,
                 !.pc = "m_loop", !.stage = 1, !.step = 1]
    /\ UNCHANGED othersGpu

\* What the multi-pass executor did, in order: the cancellation poll, the
\* parameter write (stage, step - 1, N, 0), the dispatch and the submit of the
\* pass at loop position (stage, step); the copy to the readback buffer and
\* its submit carry position (0, 0).
GpuEvent(op, stage, step) == [op |-> op, stage |-> stage, step |-> step]

\* Mutant of UniformArray: the second word is the loop variable step itself.
UniformArrayLoopStep(stage, step, N) == <<stage, step, N, 0>>

\* uniformArray as the loop body fills it at (stage, step).
UniformArray(stage, step, N) == <<stage, step - 1, N, 0>>

\* What one pass was encoded with: the contents of the parameter uniform
\* buffer at the dispatch, that buffer, and the bind group set.
Dispatched(g, words) ==
    [stage |-> g.stage, step |-> g.step, uniform |-> words,
     buffer |-> g.paramsUniformBuffer, bindGroup |-> g.bindGroup]

\* Mutant of NextPass: step ascends within a stage.
NextPassAscending(stage, step) ==
    IF step < stage THEN [stage |-> stage, step |-> step + 1]
    ELSE [stage |-> stage + 1, step |-> 1]

\* for (stage = 1; stage <= log2N; stage++) for (step = stage; step >= 1; step--):
\* the loop position after the body ran at (stage, step).
NextPass(stage, step) ==
    IF step > 1 THEN [stage |-> stage, step |-> step - 1]
    ELSE [stage |-> stage + 1, step |-> stage + 1]

\* The buffers a pass names: writeBuffer on the parameter uniform, and the
\* bind group's storage and uniform buffers in the submitted pass.
PassBuffers(g) == g.storage \o <<g.paramsUniformBuffer, g.argumentBuffer>>

\* Mutant of PassBody: the pass is encoded and submitted without the poll.
PassBodyNoPoll(g) ==
    [g EXCEPT !.events = @ \o <<GpuEvent("write", g.stage, g.step),
                                 GpuEvent("dispatch", g.stage, g.step),
                                 GpuEvent("submit", g.stage, g.step)>>,
              !.buffers = UseAll(@, PassBuffers(g)),
              !.uniform = UniformArray(g.stage, g.step, g.cfg.arrayLength),
              !.dispatches = Append(@,
                  Dispatched(g, UniformArray(g.stage, g.step, g.cfg.arrayLength))),
              !.submits = @ + 1,
              !.stage = NextPass(g.stage, g.step).stage,
              !.step = NextPass(g.stage, g.step).step]

\* The body of the loop nest at (stage, step): checkCancellation, writeBuffer,
\* encode the pass, submit; then the loop counters advance.
PassBody(g) ==
    IF g.cancelled
    THEN ThrowInside([g EXCEPT !.events = Append(@, GpuEvent("poll", g.stage, g.step))],
                     CanceledError)
    ELSE [g EXCEPT !.events = @ \o <<GpuEvent("poll", g.stage, g.step),
                                     GpuEvent("write", g.stage, g.step),
                                     GpuEvent("dispatch", g.stage, g.step),
                                     GpuEvent("submit", g.stage, g.step)>>,
                   !.buffers = UseAll(@, PassBuffers(g)),
                   !.uniform = UniformArray(g.stage, g.step, g.cfg.arrayLength),
                   !.dispatches = Append(@,
                       Dispatched(g, UniformArray(g.stage, g.step, g.cfg.arrayLength))),
                   !.submits = @ + 1,
                   !.stage = NextPass(g.stage, g.step).stage,
                   !.step = NextPass(g.stage, g.step).step]

\* One pass of the loop nest.
MultiPass ==
    /\ gpu.pc = "m_loop"
    /\ gpu.stage <= Log2(gpu.cfg.arrayLength)
    /\ gpu' = PassBody(gpu)
    /\ UNCHANGED othersGpu

\* After the loop: the readback buffer is created, the copy is submitted, the
\* storage buffers are destroyed and mapAsync is awaited.
MultiReadback ==
    /\ gpu.pc = "m_loop"
    /\ gpu.stage > Log2(gpu.cfg.arrayLength)
    /\ gpu' = [CreateBuffer(gpu, "readback") EXCEPT
                  !.outputBuffer = gpu.storage[1],
                  !.readbackBuffer = NewBuffer(gpu),
                  !.submits = @ + 1,
                  !.events = @ \o <<GpuEvent("copy", 0, 0), GpuEvent("submit", 0, 0)>>,
                  !.buffers = SubmitThenDestroy(@, <<gpu.storage[1], NewBuffer(gpu)>>,
                                                gpu.storage),
                  !.storage = <<>>,
                  !.pc = "awaitMap"]
    /\ UNCHANGED othersGpu

\* ---- both executors

\* mapAsync settled; checkCancellation(); the mapped range is copied, the buffer
\* unmapped; the buffers still needed are destroyed; the deserializer runs.
GpuMapped ==
    /\ gpu.pc = "awaitMap"
    /\ \E mapOk \in BOOLEAN, deserializerThrows \in BOOLEAN :
        gpu' =
          IF ~mapOk THEN ThrowInside(gpu, Error("mapAsync failed"))
          ELSE IF gpu.cancelled
          THEN ThrowInside([gpu EXCEPT !.buffers[gpu.readbackBuffer].mapped = TRUE],
                           CanceledError)
          ELSE LET data == ReadOut(gpu.buffers, gpu.readbackBuffer)
                   bufs == IF gpu.cfg.type = "SINGLE_PASS"
                           THEN SafeDestroy(data, gpu.readbackBuffer)
                           ELSE SafeDestroy(SafeDestroy(SafeDestroy(data,
                                    gpu.paramsUniformBuffer), gpu.argumentBuffer),
                                    gpu.readbackBuffer)
                   g1   == [gpu EXCEPT !.buffers = bufs, !.atDeserializer = <<bufs>>]
               IN IF deserializerThrows THEN ThrowInside(g1, Error("deserializer threw"))
                  ELSE [g1 EXCEPT !.pc = "finally"]
    /\ UNCHANGED othersGpu

\* The finally block; then the promise settles and GpuTaskRunner's Task with it.
GpuFinally ==
    /\ gpu.pc = "finally"
    /\ LET list == IF gpu.cfg.type = "SINGLE_PASS" THEN SinglePassFinallyList(gpu)
                   ELSE MultiPassFinallyList(gpu)
           bufs == DestroyAll(gpu.buffers, list)
       IN gpu' =
            IF gpu.cause = Undefined
            THEN [gpu EXCEPT !.buffers = bufs, !.pc = "done", !.outcome = "fulfilled",
                             !.rtask = TaskResolve(@, "result")]
            ELSE [gpu EXCEPT !.buffers = bufs, !.pc = "done", !.outcome = "rejected",
                             !.rtask = TaskReject(@, gpu.cause)]
    /\ UNCHANGED othersGpu

NextGpu ==
    \/ GpuCancel
    \/ GpuStart
    \/ GpuAdapter
    \/ GpuDevice
    \/ SingleInput
    \/ SingleOutput
    \/ SingleParams
    \/ SingleArgs
    \/ SingleDispatch
    \/ MultiPowerOfTwo
    \/ MultiInput
    \/ MultiParams
    \/ MultiArgs
    \/ MultiPass
    \/ MultiReadback
    \/ GpuMapped
    \/ GpuFinally

-----------------------------------------------------------------------------
(***************************************************************************)
(* TaskFactory: whenAll, whenAny, parallelFor                              *)
(***************************************************************************)

MaxTasks == 2

MaxIter == 2

FromValues == {0, 1}

\* An element of Promise.all's values array that has not been filled yet.
Hole == "hole"

\* What body(i) does: returns nothing, a value that is no Task, a pending
\* Task, a Task that is already rejected, or throws; it may cancel the token.
BodyKinds == {"void", "value", "pending", "rejected", "throws"}

Bodies(n) == [1..n -> [ret : BodyKinds, cancels : BOOLEAN]]

\* How an input Task settles.
SettleOutcomes ==
    {[ok |-> TRUE, value |-> v, reason |-> Undefined] : v \in TaskValues}
        \cup {[ok |-> FALSE, value |-> "undefined", reason |-> r] : r \in TaskReasons}

\* TaskFactory.fromResult(result)
fromResult(result) == TaskResolve(RunningTask, result)

\* An input Task; subscribed: a reaction of the join is registered on its promise.
Input(t) == [task |-> t, subscribed |-> FALSE]

Settled(t) == t.internalPromise.state # "pending"

\* Microtasks. subscribe: Promise.all calls then() of the thenable Task i;
\* input: the join's reaction to the settlement of input i; join: the reaction
\* registered on the join promise by the returned Task's executor.
SubscribeJob(i) == [kind |-> "subscribe", i |-> i]

InputJob(i) == [kind |-> "input", i |-> i]

JoinJob == [kind |-> "join", i |-> 0]

\* Promise.all(tasks) followed by promiseAll.then(resolve, reject).
PromiseAll(inputs) ==
    [join   |-> IF inputs = <<>> THEN PromiseResolve(PendingPromise, <<>>)
                ELSE PendingPromise,
     values |-> [i \in DOMAIN inputs |-> Hole],
     queue  |-> IF inputs = <<>> THEN <<JoinJob>>
                ELSE [i \in DOMAIN inputs |-> SubscribeJob(i)]]

\* Mutant of AllObserve: results are stored in order of completion.
AllObserveUnordered(join, values, t, i) ==
    IF t.internalPromise.state = "fulfilled"
    THEN LET h  == CHOOSE j \in DOMAIN values :
                       /\ values[j] = Hole
                       /\ \A m \in 1..(j - 1) : values[m] # Hole
             vs == [values EXCEPT ![h] = t.internalPromise.value]
         IN [values |-> vs,
             join   |-> IF \A j \in DOMAIN vs : vs[j] # Hole
                        THEN PromiseResolve(join, vs) ELSE join]
    ELSE [values |-> values, join |-> PromiseReject(join, t.internalPromise.reason)]

\* Promise.all's reaction to the settlement of element i.
AllObserve(join, values, t, i) ==
    IF t.internalPromise.state = "fulfilled"
    THEN LET vs == [values EXCEPT ![i] = t.internalPromise.value]
         IN [values |-> vs,
             join   |-> IF \A j \in DOMAIN vs : vs[j] # Hole
                        THEN PromiseResolve(join, vs) ELSE join]
    ELSE [values |-> values, join |-> PromiseReject(join, t.internalPromise.reason)]

\* Mutant of RaceObserve: a rejected input rejects the race.
RaceObservePassThrough(join, t, i) ==
    IF t.internalPromise.state = "fulfilled"
    THEN PromiseResolve(join, [ref |-> i])
    ELSE PromiseReject(join, t.internalPromise.reason)

\* whenAny: t.promise.then(() => t, () => t) settles and Promise.race reacts;
\* the value is the Task object itself, written [ref |-> i].
RaceObserve(join, t, i) == PromiseResolve(join, [ref |-> i])

\* The reaction registered on the join promise, applied to the returned Task.
JoinSettle(mode, combined, join, cancelled) ==
    IF mode = "parallelFor"
    THEN IF join.state = "fulfilled"
         THEN IF cancelled
              THEN TaskReject(combined, OperationCanceledError(
                       "Parallel.For completed, but was canceled during execution."))
              ELSE TaskResolve(combined, "undefined")
         ELSE TaskReject(combined, join.reason)
    ELSE IF join.state = "fulfilled"
         THEN TaskResolve(combined, join.value)
         ELSE TaskReject(combined, join.reason)

\* What one iteration adds to the tasks array of parallelFor.
Pushed(ret) ==
    CASE ret = "value"    -> <<fromResult("undefined")>>
      [] ret = "pending"  -> <<RunningTask>>
      [] ret = "rejected" -> <<RejectedTask(Error("boom"))>>
      [] OTHER            -> <<>>

\* Mutant of ForLoop: the loop does not look at the token.
ForLoopNoCheck(k, from, bodies, st) ==
    IF k > Len(bodies) THEN st
    ELSE LET b   == bodies[k]
             st1 == [st EXCEPT !.log = Append(@, [index |-> from + k - 1,
                                                  cancelledBefore |-> st.cancelled,
                                                  cancels |-> b.cancels]),
                               !.cancelled = @ \/ b.cancels]
         IN IF b.ret = "throws" THEN [st1 EXCEPT !.threw = TRUE]
            ELSE ForLoopNoCheck(k + 1, from, bodies,
                                [st1 EXCEPT !.tasks = @ \o Pushed(b.ret)])

\* The for loop of parallelFor from its k-th iteration on.
ForLoop(k, from, bodies, st) ==
    IF k > Len(bodies) \/ st.cancelled THEN st
    ELSE LET b   == bodies[k]
             st1 == [st EXCEPT !.log = Append(@, [index |-> from + k - 1,
                                                  cancelledBefore |-> st.cancelled,
                                                  cancels |-> b.cancels]),
                               !.cancelled = @ \/ b.cancels]
         IN IF b.ret = "throws" THEN [st1 EXCEPT !.threw = TRUE]
            ELSE ForLoop(k + 1, from, bodies,
                         [st1 EXCEPT !.tasks = @ \o Pushed(b.ret)])

NoCall == [from |-> 0, to |-> 0, preCancelled |-> FALSE, log |-> <<>>]

FactoryIdle ==
    /\ fmode = "none"
    /\ fpc = "before"
    /\ finputs = <<>>
    /\ ftoken = FALSE
    /\ fjoin = PendingPromise
    /\ fvalues = <<>>
    /\ fqueue = <<>>
    /\ fcombined = CreatedTask
    /\ fsettled = <<>>
    /\ fatCall = {}
    /\ fobserved = <<>>
    /\ flaunched = NoCall

\* The caller holds up to MaxTasks running Tasks (whenAll, whenAny) or is about
\* to call parallelFor.
InitFactory ==
    \E mode \in {"whenAll", "whenAny", "parallelFor"}, n \in 0..MaxTasks :
        /\ fmode = mode
        /\ fpc = "before"
        /\ finputs = IF mode = "parallelFor" THEN <<>>
                     ELSE [i \in 1..n |-> Input(RunningTask)]
        /\ ftoken = FALSE
        /\ fjoin = PendingPromise
        /\ fvalues = <<>>
        /\ fqueue = <<>>
        /\ fcombined = CreatedTask
        /\ fsettled = <<>>
        /\ fatCall = {}
        /\ fobserved = <<>>
        /\ flaunched = NoCall

\* An input Task that is still pending settles.
FSettle ==
    /\ \E i \in DOMAIN finputs, out \in SettleOutcomes :
        /\ ~Settled(finputs[i].task)
        /\ finputs' = [finputs EXCEPT ![i].task =
                          IF out.ok THEN TaskResolve(@, out.value)
                          ELSE TaskReject(@, out.reason)]
        /\ fsettled' = Append(fsettled, i)
        /\ fqueue' = IF finputs[i].subscribed THEN Append(fqueue, InputJob(i))
                     ELSE fqueue
    /\ UNCHANGED <<fmode, fpc, ftoken, fjoin, fvalues, fcombined, fatCall,
                   fobserved, flaunched>>
    /\ UNCHANGED othersFactory

\* source.cancel() on the source of the token given to parallelFor.
FCancel ==
    /\ fmode = "parallelFor"
    /\ fpc # "threw"
    /\ ~ftoken
    /\ ftoken' = TRUE
    /\ UNCHANGED <<fmode, fpc, finputs, fjoin, fvalues, fqueue, fcombined, fsettled,
                   fatCall, fobserved, flaunched>>
    /\ UNCHANGED othersFactory

\* TaskFactory.whenAll(tasks)
whenAll ==
    /\ fmode = "whenAll"
    /\ fpc = "before"
    /\ LET a == PromiseAll(finputs)
       IN /\ fjoin' = a.join
          /\ fvalues' = a.values
          /\ fqueue' = a.queue
    /\ fcombined' = RunningTask
    /\ fatCall' = {i \in DOMAIN finputs : Settled(finputs[i].task)}
    /\ fpc' = "called"
    /\ UNCHANGED <<fmode, finputs, ftoken, fsettled, fobserved, flaunched>>
    /\ UNCHANGED othersFactory

\* TaskFactory.whenAny(tasks)
whenAny ==
    /\ fmode = "whenAny"
    /\ fpc = "before"
    /\ fjoin' = PendingPromise
    /\ fqueue' = SelectSeq([i \in DOMAIN finputs |-> InputJob(i)],
                           LAMBDA j : Settled(finputs[j.i].task))
    /\ finputs' = [i \in DOMAIN finputs |-> [finputs[i] EXCEPT !.subscribed = TRUE]]
    /\ fcombined' = RunningTask
    /\ fatCall' = {i \in DOMAIN finputs : Settled(finputs[i].task)}
    /\ fpc' = "called"
    /\ UNCHANGED <<fmode, ftoken, fvalues, fsettled, fobserved, flaunched>>
    /\ UNCHANGED othersFactory

\* TaskFactory.parallelFor(from, from + n, body, token)
parallelFor ==
    /\ fmode = "parallelFor"
    /\ fpc = "before"
    /\ \E from \in FromValues, n \in 0..MaxIter :
        \E bodies \in Bodies(n) :
          IF ftoken
          THEN /\ fcombined' = RejectedTask(OperationCanceledError(
                                   "Parallel.For canceled immediately."))
               /\ fpc' = "called"
               /\ flaunched' = [from |-> from, to |-> from + n,
                                preCancelled |-> TRUE, log |-> <<>>]
               /\ UNCHANGED <<finputs, ftoken, fjoin, fvalues, fqueue>>
          ELSE LET st == ForLoop(1, from, bodies,
                                 [cancelled |-> FALSE, tasks |-> <<>>,
                                  log |-> <<>>, threw |-> FALSE])
                   a  == PromiseAll(st.tasks)
               IN /\ ftoken' = st.cancelled
                  /\ flaunched' = [from |-> from, to |-> from + n,
                                   preCancelled |-> FALSE, log |-> st.log]
                  /\ finputs' = [i \in DOMAIN st.tasks |-> Input(st.tasks[i])]
                  /\ IF st.threw
                     THEN /\ fpc' = "threw"
                          /\ UNCHANGED <<fcombined, fjoin, fvalues, fqueue>>
                     ELSE /\ fpc' = "called"
                          /\ fcombined' = RunningTask
                          /\ fjoin' = a.join
                          /\ fvalues' = a.values
                          /\ fqueue' = a.queue
    /\ UNCHANGED <<fmode, fsettled, fatCall, fobserved>>
    /\ UNCHANGED othersFactory

\* The microtask at the head of the queue runs.
FJob ==
    /\ fqueue # <<>>
    /\ LET job  == Head(fqueue)
           rest == Tail(fqueue)
       IN CASE job.kind = "subscribe" ->
                 /\ IF Settled(finputs[job.i].task)
                    THEN /\ fqueue' = Append(rest, InputJob(job.i))
                         /\ finputs' = finputs
                    ELSE /\ fqueue' = rest
                         /\ finputs' = [finputs EXCEPT ![job.i].subscribed = TRUE]
                 /\ UNCHANGED <<fjoin, fvalues, fcombined, fobserved>>
            [] job.kind = "input" ->
                 LET t == finputs[job.i].task
                     r == IF fmode = "whenAny"
                          THEN [join |-> RaceObserve(fjoin, t, job.i), values |-> fvalues]
                          ELSE AllObserve(fjoin, fvalues, t, job.i)
                 IN /\ fjoin' = r.join
                    /\ fvalues' = r.values
                    /\ fqueue' = IF fjoin.state = "pending" /\ r.join.state # "pending"
                                 THEN Append(rest, JoinJob) ELSE rest
                    /\ fobserved' = Append(fobserved, job.i)
                    /\ UNCHANGED <<finputs, fcombined>>
            [] job.kind = "join" ->
                 /\ fcombined' = JoinSettle(fmode, fcombined, fjoin, ftoken)
                 /\ fqueue' = rest
                 /\ UNCHANGED <<finputs, fjoin, fvalues, fobserved>>
    /\ UNCHANGED <<fmode, fpc, ftoken, fsettled, fatCall, flaunched>>
    /\ UNCHANGED othersFactory

NextFactory ==
    \/ FSettle
    \/ FCancel
    \/ whenAll
    \/ whenAny
    \/ parallelFor
    \/ FJob

-----------------------------------------------------------------------------
(***************************************************************************)
(* createGpuArgumentBuffer                                                 *)
(***************************************************************************)

MaxFields == 2

GpuArgTypes == {"int", "uint", "float", "vec2", "vec3", "vec4", "mat2", "mat3", "mat4"}

\* const alignments, in bytes.
Alignments ==
    [t \in GpuArgTypes |->
        CASE t \in {"int", "uint", "float"} -> 4
          [] t = "vec2" -> 8
          [] t \in {"vec3", "vec4"} -> 16
          [] t = "mat2" -> 16 * 2
          [] t = "mat3" -> 16 * 3
          [] t = "mat4" -> 16 * 4]

\* The values a field of each type carries in the model; none of them is 0, so
\* that padding can be told from data.
FieldValues(t) ==
    CASE t = "int"   -> {<<7>>}
      [] t = "uint"  -> {<<9>>, <<16777217>>}
      [] t = "float" -> {<<4>>}
      [] t = "vec2"  -> {<<1, 2>>}
      [] t = "vec3"  -> {<<1, 2, 3>>}
      [] t = "vec4"  -> {<<1, 2, 3, 4>>}
      [] t = "mat2"  -> {<<1, 2, 3, 4>>}
      [] t = "mat3"  -> {<<1, 2, 3, 4, 5, 6, 7, 8, 9>>}
      [] t = "mat4"  -> {<<1, 2, 3, 4, 5, 6, 7, 8, 9, 10, 11, 12, 13, 14, 15, 16>>}

\* A schema entry {type, value}; a number value is the one-element list.
Fields == UNION {{[type |-> t, value |-> v] : v \in FieldValues(t)} : t \in GpuArgTypes}

\* Object.entries(schema) for a schema with up to MaxFields named fields, in
\* insertion order.
Schemas == SeqsUpTo(Fields, MaxFields)

\* The number a Float32Array element holds after storing the integer v: every
\* integer up to 2^24 is kept, between 2^24 and 2^25 only the even ones are
\* representable and an odd one goes to the neighbour with the even mantissa.
Fround(v) ==
    IF v <= 16777216 THEN v
    ELSE IF v % 2 = 0 THEN v
    ELSE IF (v - 1) % 4 = 0 THEN v - 1
    ELSE v + 1

Zeros(n) == [i \in 1..n |-> 0]

\* Mutant of PadTo: no padding.
PadToNothing(a, m) == a

\* while (offset % m !== 0) { tempBuffer.push(0); offset++; }
PadTo(a, m) ==
    LET n == (m - (a.offset % m)) % m
    IN [a EXCEPT !.tempBuffer = @ \o Zeros(n), !.offset = @ + n]

IsMat(t) == t \in {"mat2", "mat3", "mat4"}

\* One iteration of the loop over Object.entries(schema).
PackField(a, field) ==
    LET aligned == PadTo(a, Alignments[field.type] \div 4)
        pushed  == [aligned EXCEPT !.tempBuffer = @ \o field.value,
                                   !.offset = @ + Len(field.value)]
        vec3    == IF field.type = "vec3" THEN PadTo(pushed, 4) ELSE pushed
    IN IF IsMat(field.type) THEN PadTo(vec3, 4) ELSE vec3

\* Math.ceil((tempBuffer.length * 4) / 16) * 16
TotalBytes(tempBuffer) == ((Len(tempBuffer) * 4 + 15) \div 16) * 16

\* new Float32Array(totalBytes / 4); view.set(tempBuffer)
PackView(tempBuffer) ==
    [i \in 1..(TotalBytes(tempBuffer) \div 4) |->
        IF i <= Len(tempBuffer) THEN Fround(tempBuffer[i]) ELSE 0]

NewArgs(schema, pc) ==
    [schema |-> schema, i |-> 1, offset |-> 0, tempBuffer |-> <<>>, view |-> <<>>,
     pc |-> pc]

ArgsIdle == args = NewArgs(<<>>, "idle")

\* createGpuArgumentBuffer(schema) is called.
InitArgs == \E schema \in Schemas : args = NewArgs(schema, "loop")

\* The loop body runs for the next entry of the schema.
ArgsField ==
    /\ args.pc = "loop"
    /\ args.i <= Len(args.schema)
    /\ args' = [PackField(args, args.schema[args.i]) EXCEPT !.i = @ + 1]
    /\ UNCHANGED othersArgs

\* After the loop: the view is allocated, filled and returned.
ArgsReturn ==
    /\ args.pc = "loop"
    /\ args.i > Len(args.schema)
    /\ args' = [args EXCEPT !.view = PackView(args.tempBuffer), !.pc = "done"]
    /\ UNCHANGED othersArgs

NextArgs ==
    \/ ArgsField
    \/ ArgsReturn

-----------------------------------------------------------------------------
(***************************************************************************)
(* extractTransferables                                                    *)
(***************************************************************************)

\* The arrays and plain objects of the argument graph are numbered 1..MaxContainers;
\* the argument itself is container 1.
MaxContainers == 2

Containers == 1..MaxContainers

\* The values an array element or object property can hold: a falsy value,
\* two typed arrays over ArrayBuffer 1, the raw ArrayBuffer 2, or a reference
\* to an array or plain object of the graph.
FalsyValue == [kind |-> "falsy", buffer |-> 0, id |-> 0]

LeafValues ==
    {FalsyValue,
     [kind |-> "view", buffer |-> 1, id |-> 1],
     [kind |-> "view", buffer |-> 1, id |-> 2],
     [kind |-> "buffer", buffer |-> 2, id |-> 0]}

Ref(c) == [kind |-> "ref", buffer |-> 0, id |-> c]

XtValues == LeafValues \cup {Ref(c) : c \in Containers}

\* Odd containers are arrays, even ones plain objects.
ContainerKind(c) == IF c % 2 = 1 THEN "array" ELSE "object"

\* An argument graph: the elements (property values) of every container, in
\* forEach / Object.values order. References may be shared and may form cycles.
XtHeaps == [Containers -> SeqsUpTo(XtValues, 2)]

\* The call-stack depth at which the engine throws RangeError; a graph without
\* cycles never nests deeper than its number of containers.
StackLimit == MaxContainers + 1

\* recurse(value): the branch taken for one value.
Visit(x, value) ==
    IF value.kind = "falsy" THEN x
    ELSE IF value.kind = "view" THEN [x EXCEPT !.transfers = Append(@, value.buffer)]
    ELSE IF value.kind = "buffer" THEN [x EXCEPT !.transfers = Append(@, value.buffer)]
    ELSE IF ContainerKind(value.id) = "array"
    THEN [x EXCEPT !.stack = <<x.heap[value.id]>> \o @]
    ELSE [x EXCEPT !.stack = <<x.heap[value.id]>> \o @]

NewXt(heap, pc) ==
    [heap |-> heap, stack |-> <<<<Ref(1)>>>>, transfers |-> <<>>, pc |-> pc]

XtIdle == xt = NewXt([c \in Containers |-> <<>>], "idle")

\* extractTransferables(obj) is called: recurse(obj) is about to run.
InitXt == \E heap \in XtHeaps : xt = NewXt(heap, "run")

\* The next recurse(value) call of the innermost forEach.
XtRecurse ==
    /\ xt.pc = "run"
    /\ xt.stack # <<>>
    /\ Head(xt.stack) # <<>>
    /\ LET popped == [xt EXCEPT !.stack = <<Tail(Head(xt.stack))>> \o Tail(xt.stack)]
           next   == Visit(popped, Head(Head(xt.stack)))
       IN xt' = IF Len(next.stack) > StackLimit
                THEN [next EXCEPT !.pc = "threw"]
                ELSE next
    /\ UNCHANGED othersXt

\* The innermost forEach is done: its recurse call returns.
XtReturn ==
    /\ xt.pc = "run"
    /\ xt.stack # <<>>
    /\ Head(xt.stack) = <<>>
    /\ xt' = [xt EXCEPT !.stack = Tail(@),
                        !.pc = IF Tail(xt.stack) = <<>> THEN "returned" ELSE "run"]
    /\ UNCHANGED othersXt

NextXt ==
    \/ XtRecurse
    \/ XtReturn

-----------------------------------------------------------------------------
(***************************************************************************)
(* Specifications                                                          *)
(***************************************************************************)

InitSpecTask   == InitTask /\ TokenIdle /\ WorkerIdle /\ SchedIdle /\ GpuIdle /\ FactoryIdle /\ ArgsIdle /\ XtIdle

InitSpecToken  == TaskIdle /\ InitToken /\ WorkerIdle /\ SchedIdle /\ GpuIdle /\ FactoryIdle /\ ArgsIdle /\ XtIdle

InitSpecWorker == TaskIdle /\ TokenIdle /\ InitWorker /\ SchedIdle /\ GpuIdle /\ FactoryIdle /\ ArgsIdle /\ XtIdle

InitSpecSched  == TaskIdle /\ TokenIdle /\ WorkerIdle /\ InitSched /\ GpuIdle /\ FactoryIdle /\ ArgsIdle /\ XtIdle

InitSpecGpu    == TaskIdle /\ TokenIdle /\ WorkerIdle /\ SchedIdle /\ InitGpu /\ FactoryIdle /\ ArgsIdle /\ XtIdle

InitSpecFactory == TaskIdle /\ TokenIdle /\ WorkerIdle /\ SchedIdle /\ GpuIdle /\ InitFactory /\ ArgsIdle /\ XtIdle

SpecTask   == InitSpecTask /\ [][NextTask]_vars

SpecToken  == InitSpecToken /\ [][NextToken]_vars

SpecWorker == InitSpecWorker /\ [][NextWorker]_vars

SpecSched  == InitSpecSched /\ [][NextSched]_vars

SpecSchedOps == InitSpecSched /\ [][NextSchedOps]_vars

SpecGpu    == InitSpecGpu /\ [][NextGpu]_vars

SpecFactory == InitSpecFactory /\ [][NextFactory]_vars

InitSpecArgs ==
    TaskIdle /\ TokenIdle /\ WorkerIdle /\ SchedIdle /\ GpuIdle /\ FactoryIdle /\ InitArgs /\ XtIdle

SpecArgs   == InitSpecArgs /\ [][NextArgs]_vars

InitSpecXt ==
    TaskIdle /\ TokenIdle /\ WorkerIdle /\ SchedIdle /\ GpuIdle /\ FactoryIdle /\ ArgsIdle /\ InitXt

SpecXt     == InitSpecXt /\ [][NextXt]_vars

-----------------------------------------------------------------------------
(***************************************************************************)
(* Properties                                                              *)
(***************************************************************************)

\* How often n occurs in the sequence q.
Count(q, n) == Cardinality({i \in DOMAIN q : q[i] = n})

\* C1: once a Task's status is RanToCompletion, Faulted or Canceled, no later
\* resolve / reject call and no synchronous throw changes its status, result
\* or captured error.
C1_TerminalNeverChanges ==
    [][task.currentStatus \in TerminalStatus =>
          /\ task'.currentStatus = task.currentStatus
          /\ task'.resultValue = task.resultValue
          /\ task'.error = task.error]_vars

\* C2: when the promise of a single-pass execution has settled, every GPU
\* buffer the invocation created has been destroyed.
C2_SinglePassNoLeak ==
    (gpu.cfg.type = "SINGLE_PASS" /\ gpu.pc = "done") =>
        \A b \in DOMAIN gpu.buffers : gpu.buffers[b].state = "destroyed"

\* C3: when the promise of a multi-pass execution has settled, every GPU buffer
\* the invocation created (parameter uniform, argument uniform and readback
\* buffer included) has been destroyed.
C3_MultiPassNoLeak ==
    (gpu.cfg.type = "MULTI_PASS" /\ gpu.pc = "done") =>
        \A b \in DOMAIN gpu.buffers : gpu.buffers[b].state = "destroyed"

\* The callbacks of registeredBefore that were invoked, in invocation order.
InvokedRegistered ==
    SelectSeq(invoked, LAMBDA n : \E i \in DOMAIN registeredBefore :
                                      registeredBefore[i].n = n)

C4_State ==
    /\ \A i \in DOMAIN registeredBefore :
          Count(invoked, registeredBefore[i].n) =
              IF token.isCancellationRequested THEN 1 ELSE 0
    /\ token.isCancellationRequested =>
          /\ token.callbacks = <<>>
          /\ InvokedRegistered = [i \in DOMAIN registeredBefore |-> registeredBefore[i].n]
    /\ cancelCalls > 0 => token.isCancellationRequested

\* C4: every callback registered before the first cancel() is invoked exactly
\* once in total, in registration order, however often cancel() is called and
\* also when an earlier callback throws; after the first cancel() the callback
\* list is empty and isCancellationRequested stays true.
C4_CallbacksExactlyOnce ==
    /\ []C4_State
    /\ [][token.isCancellationRequested => token'.isCancellationRequested]_vars

\* cancel() was called twice on a token with at least two callbacks, the first
\* of which throws.
C4_Witness ==
    /\ cancelCalls = 2
    /\ Len(registeredBefore) >= 2
    /\ registeredBefore[1].kind = "throws"
    /\ token.isCancellationRequested

\* The messages posted by the step.
NewMessages == SubSeq(outbox', Len(outbox) + 1, Len(outbox'))

\* C5: when the token of a pending request is cancelled, the step of cancel()
\* posts {cancel: id} with that request's id and leaves the Task rejected with
\* a cancellation cause, status Canceled.
C5_CancelPostsAndRejects ==
    [][\A tok \in WTokens :
          (~wtokens[tok].isCancellationRequested /\ wtokens'[tok].isCancellationRequested)
          => \A i \in DOMAIN wtokens[tok].callbacks :
                LET cb == wtokens[tok].callbacks[i]
                IN cb.id \in DOMAIN pending =>
                     /\ Count(NewMessages, CancelMessage(cb.id)) = 1
                     /\ wtasks'[cb.k].task.currentStatus = "Canceled"
                     /\ IsOperationCanceledError(wtasks'[cb.k].task.error)
                     /\ wtasks'[cb.k].task.internalPromise.state = "rejected"
                     /\ IsOperationCanceledError(wtasks'[cb.k].task.internalPromise.reason)
      ]_vars

\* A request was cancelled while pending and the worker has not answered it;
\* another request is pending too.
C5_Witness ==
    /\ lastEvent.op = "cancel"
    /\ \E k \in DOMAIN wtasks :
          /\ wtasks[k].id \in DOMAIN pending
          /\ wtasks[k].task.currentStatus = "Canceled"
          /\ Count(outbox, CancelMessage(wtasks[k].id)) = 1
    /\ Cardinality(DOMAIN pending) = 2

\* C6: after the token of a pending dispatch has been cancelled, the pending
\* table no longer contains that request's id.
C6_CancelRemovesEntry ==
    \A k \in DOMAIN wtasks :
        (/\ wtasks[k].token # "none"
         /\ wtasks[k].id # Null
         /\ wtokens[wtasks[k].token].isCancellationRequested)
        => wtasks[k].id \notin DOMAIN pending

C7_Ids ==
    /\ \A i, j \in DOMAIN issued : i < j => issued[i] < issued[j]
    /\ \A id \in DOMAIN pending : \E i \in DOMAIN issued : issued[i] = id

C7_Step ==
    /\ (lastEvent'.op = "dispatch" /\ Len(wtasks') = Len(wtasks) + 1) =>
          /\ \A i \in DOMAIN issued : issued[i] < lastEvent'.id
          /\ lastEvent'.id \notin DOMAIN pending
          /\ ~lastEvent'.threw =>
                /\ DOMAIN pending' = DOMAIN pending \cup {lastEvent'.id}
                /\ pending'[lastEvent'.id] = Len(wtasks')
    /\ lastEvent'.op = "response" =>
          LET id == lastEvent'.id
          IN IF id \in DOMAIN pending
             THEN /\ DOMAIN pending' = DOMAIN pending \ {id}
                  /\ \A k \in DOMAIN wtasks :
                        IF k = pending[id]
                        THEN IF lastEvent'.error # "undefined"
                             THEN /\ wtasks'[k].task.currentStatus = "Faulted"
                                  /\ wtasks'[k].task.error = Error(lastEvent'.error)
                             ELSE /\ wtasks'[k].task.currentStatus = "RanToCompletion"
                                  /\ wtasks'[k].task.resultValue = lastEvent'.result
                        ELSE wtasks'[k] = wtasks[k]
             ELSE /\ pending' = pending
                  /\ wtasks' = wtasks
                  /\ outbox' = outbox

C8_SendFailureRollsBack ==
    [][(lastEvent'.op = "dispatch" /\ lastEvent'.threw /\ Len(wtasks') = Len(wtasks) + 1)
          => /\ pending' = pending
             /\ wtasks'[Len(wtasks')].task.currentStatus = "Faulted"
             /\ wtasks'[Len(wtasks')].task.error = SendError
             /\ wtasks'[Len(wtasks')].task.internalPromise.state = "rejected"
             /\ wtasks'[Len(wtasks')].task.internalPromise.reason = SendError
      ]_vars

\* A send failed while another request was pending.
C8_Witness ==
    /\ lastEvent.op = "dispatch"
    /\ lastEvent.threw
    /\ Cardinality(DOMAIN pending) = 1
    /\ wtasks[Len(wtasks)].task.currentStatus = "Faulted"

\* The queue holds an entry for delay Task d.
Queued(q, d) == \E i \in DOMAIN q : q[i].callback = d

\* C9: only one of {fire, cancel} settles a delay Task: once its status is
\* terminal, neither a later cancel() nor a later tick changes it.
C9_OnlyOneSettles ==
    [][\A d \in DOMAIN delays :
          delays[d].task.currentStatus \in TerminalStatus =>
              delays'[d].task.currentStatus = delays[d].task.currentStatus]_vars

\* C10: when the token of a queued delay is cancelled, the Task's status is
\* Canceled and its entry is removed from the queue by that cancel().
C10_CancelBeforeDue ==
    [][\A tok \in STokens :
          (~stokens[tok].isCancellationRequested /\ stokens'[tok].isCancellationRequested)
          => \A d \in DOMAIN delays :
                (delays[d].token = tok /\ Queued(tasks, d)) =>
                    /\ delays'[d].task.currentStatus = "Canceled"
                    /\ ~Queued(tasks', d)]_vars

\* C11: delay(ms, token) with a token whose cancellation was already requested
\* returns a Task whose status is Canceled and leaves the queue, the next task
\* id and the frame request of the scheduler unchanged.
C11_DelayPreCancelled ==
    [][(/\ Len(delays') = Len(delays) + 1
        /\ delays'[Len(delays')].token # "none"
        /\ stokens[delays'[Len(delays')].token].isCancellationRequested)
       => /\ delays'[Len(delays')].task.currentStatus = "Canceled"
          /\ tasks' = tasks
          /\ nextTaskId' = nextTaskId
          /\ animationFrameId' = animationFrameId
          /\ startTime' = startTime]_vars

\* Delay Task d's entry fires in this step.
Fires(d) == fired'[d] = fired[d] + 1

\* Unpaused time between the scheduling of delay Task d and now.
ActiveSince(d) == (now - delays[d].at) - (idleTime - delays[d].idleAt)

Resumes == isPaused /\ ~isPaused'

\* The time field of the queue entry with the given id.
TimeOf(q, id) == (CHOOSE e \in {q[i] : i \in DOMAIN q} : e.id = id).time

\* C13: start() after a pause of duration p adds p to the accumulated idle time
\* and moves the due time of every queued entry forward by p, on the first
\* cycle and on every later one.
C13_ResumeShiftsByPause ==
    [][Resumes =>
          LET p == now - pauseStartTime
          IN /\ idleTime' = idleTime + p
             /\ \A i \in DOMAIN tasks :
                   TimeOf(tasks', tasks[i].id) = tasks[i].time + p]_vars

\* C14: with no pause involved, an entry never fires before its delay has
\* elapsed since the call that added it.
C14_NotBeforeDelay ==
    [][\A d \in DOMAIN delays :
          (Fires(d) /\ pauses = 0) => now - delays[d].at >= delays[d].delay]_vars

\* C15: parallelFor invokes body(i) in ascending order over [from, to), each
\* index at most once and never once cancellation has been requested: after an
\* iteration that cancels the token no further index is launched, and with a
\* token already cancelled at the call no body is invoked and the returned
\* Task is Canceled.
C15_LoopStopsOnCancellation ==
    (fmode = "parallelFor" /\ fpc # "before") =>
        LET L == flaunched.log
        IN /\ \A k \in DOMAIN L :
                 /\ L[k].index = flaunched.from + k - 1
                 /\ L[k].index < flaunched.to
                 /\ ~L[k].cancelledBefore
                 /\ L[k].cancels => k = Len(L)
           /\ flaunched.preCancelled =>
                 /\ L = <<>>
                 /\ fcombined.currentStatus = "Canceled"
           /\ (/\ ~flaunched.preCancelled
               /\ fpc = "called"
               /\ \A k \in DOMAIN L : ~L[k].cancels)
              => Len(L) = flaunched.to - flaunched.from

\* parallelFor over two indices whose first iteration cancelled the token.
C15_Witness ==
    /\ fmode = "parallelFor"
    /\ fpc = "called"
    /\ flaunched.to - flaunched.from = 2
    /\ Len(flaunched.log) = 1
    /\ flaunched.log[1].cancels

\* C16: when the Task returned by parallelFor has settled, every Task returned
\* by a launched iteration has settled.
C16_AwaitsLaunched ==
    (fmode = "parallelFor" /\ fcombined.currentStatus \in TerminalStatus) =>
        \A i \in DOMAIN finputs : Settled(finputs[i].task)

\* C17: a parallelFor Task that settles after cancellation was requested is
\* Canceled, and it resolves only when cancellation was never requested and
\* every launched iteration fulfilled.
C17_CancellationWins ==
    [][(/\ fmode = "parallelFor"
        /\ fcombined.currentStatus \notin TerminalStatus
        /\ fcombined'.currentStatus \in TerminalStatus)
       => /\ ftoken' => fcombined'.currentStatus = "Canceled"
          /\ fcombined'.currentStatus = "RanToCompletion" =>
                /\ ~ftoken'
                /\ \A i \in DOMAIN finputs :
                      finputs[i].task.internalPromise.state = "fulfilled"]_vars

\* The inputs the join observed as rejected, in the order it observed them.
ObservedRejected ==
    SelectSeq(fobserved, LAMBDA i : finputs[i].task.internalPromise.state = "rejected")

\* C18: whenAll resolves only when all N inputs have fulfilled, with N results
\* in input order; when an input rejects it rejects, without waiting for the
\* others, with the cause of the first input observed to reject, Canceled or
\* Faulted according to that cause.
C18_WhenAll ==
    (fmode = "whenAll" /\ fpc = "called") =>
        /\ fcombined.currentStatus = "RanToCompletion" =>
              /\ Len(fcombined.resultValue) = Len(finputs)
              /\ \A i \in DOMAIN finputs :
                    /\ finputs[i].task.internalPromise.state = "fulfilled"
                    /\ fcombined.resultValue[i] = finputs[i].task.internalPromise.value
        /\ fcombined.currentStatus \in {"Faulted", "Canceled"} =>
              /\ ObservedRejected # <<>>
              /\ fcombined.error = finputs[ObservedRejected[1]].task.internalPromise.reason
              /\ fcombined.currentStatus =
                    IF IsOperationCanceledError(fcombined.error) THEN "Canceled"
                    ELSE "Faulted"
        /\ fqueue = <<>> =>
              /\ (\A i \in DOMAIN finputs :
                     finputs[i].task.internalPromise.state = "fulfilled")
                 => fcombined.currentStatus = "RanToCompletion"
              /\ (\E i \in DOMAIN finputs :
                     finputs[i].task.internalPromise.state = "rejected")
                 => fcombined.currentStatus \in {"Faulted", "Canceled"}

\* whenAll over two Tasks that fulfilled in reverse order with different values.
C18_Witness ==
    /\ fmode = "whenAll"
    /\ fcombined.currentStatus = "RanToCompletion"
    /\ fsettled = <<2, 1>>
    /\ fcombined.resultValue = <<"v1", "v2">>

\* The least element of a non-empty set of numbers.
Least(S) == CHOOSE x \in S : \A y \in S : x <= y

C20_Step ==
    /\ (taskPc = "new" /\ taskPc' = "executor") => task'.currentStatus = "Running"
    /\ (taskPc = "executor" /\ taskPc' = "threw") =>
          /\ task'.error \in TaskReasons
          /\ task'.currentStatus =
                IF IsOperationCanceledError(task'.error) THEN "Canceled" ELSE "Faulted"
          /\ task'.internalPromise.state # "pending"

\* C20: the constructor enters the executor with status Running; a synchronous
\* throw of the executor is caught and leaves the Task settled, Canceled when
\* the thrown value is a cancellation cause and Faulted otherwise.
C20_ExecutorThrowIsCaught ==
    /\ []((taskPc = "executor" /\ taskCalls = 0) => task.currentStatus = "Running")
    /\ [][C20_Step]_vars

\* The executor threw a cancellation cause before calling resolve or reject.
C20_Witness ==
    /\ taskPc = "threw"
    /\ taskCalls = 1
    /\ task.currentStatus = "Canceled"
    /\ task.internalPromise.state = "rejected"

\* The cause is a cancellation signal or wraps one.
IsOrWrapsCancellation(reason) ==
    IsOperationCanceledError(reason) \/ reason.cause = "OperationCanceledError"

\* A reject(reason) call or a throw caught by the constructor.
RejectionStep ==
    /\ taskCalls' = taskCalls + 1
    /\ task'.currentStatus \in {"Faulted", "Canceled"}

\* C21 (amended): a rejection gives Canceled if and only if its cause is an
\* OperationCanceledError instance and Faulted for every other cause, a cause
\* that only wraps an OperationCanceledError included.
C21_ClassifiedByInstance ==
    [][RejectionStep =>
          /\ task'.error \in TaskReasons
          /\ task'.currentStatus = "Canceled" <=> IsOperationCanceledError(task'.error)
          /\ task'.currentStatus = "Faulted" <=> ~IsOperationCanceledError(task'.error)]_vars

\* A Task rejected with an Error that wraps an OperationCanceledError is Faulted.
C21_Witness ==
    /\ task.currentStatus = "Faulted"
    /\ task.error = ErrorWrapping("wrapped", OperationCanceledError("The operation was canceled."))
    /\ task.internalPromise.state = "rejected"

\* C21 as stated: Canceled if and only if the cause is or wraps a cancellation.
C21_ClassifiedByCause ==
    [][RejectionStep =>
          (task'.currentStatus = "Canceled" <=> IsOrWrapsCancellation(task'.error))]_vars

\* C22: continueWith invokes fn exactly once and only after t has settled,
\* whatever t's outcome; the returned Task resolves with what fn returns or
\* with the settlement of the thenable it returns, and rejects with what fn
\* throws.
C22_ContinuationRunsOnce ==
    /\ cont.calls <= 1
    /\ cont.calls = 1 <=> cont.pc \in {"adopting", "resolving", "done"}
    /\ cont.calls = 1 => cont.seen \in TerminalStatus
    /\ cont.pc \in {"waiting", "adopting", "resolving"} => cont.task = RunningTask
    /\ cont.pc = "done" =>
          /\ cont.fn.kind = "returns" => cont.task = TaskResolve(RunningTask, cont.fn.value)
          /\ cont.fn.kind = "throws" => cont.task = TaskReject(RunningTask, cont.fn.error)
          /\ cont.fn.kind = "thenable" =>
                cont.task = IF cont.outcome.ok
                            THEN TaskResolve(RunningTask, cont.outcome.value)
                            ELSE TaskReject(RunningTask, cont.outcome.reason)

\* t was canceled, fn ran once and returned a value, the continuation Task
\* ran to completion with it.
C22_Witness ==
    /\ cont.pc = "done"
    /\ cont.calls = 1
    /\ cont.seen = "Canceled"
    /\ task.internalPromise.state = "rejected"
    /\ cont.fn.kind = "returns"
    /\ cont.task.currentStatus = "RanToCompletion"
    /\ cont.task.resultValue = "f1"

\* C23: reading result returns the value exactly when the status is
\* RanToCompletion; it throws a not-completed error while Running, the captured
\* error while Faulted and a cancellation error while Canceled; the read leaves
\* the Task as it was.
C23_ResultByStatus ==
    [][read' # read =>
          /\ task' = task
          /\ read'.kind = "returns" <=> task.currentStatus = "RanToCompletion"
          /\ task.currentStatus = "RanToCompletion" => read'.value = task.resultValue
          /\ task.currentStatus = "Running" =>
                read'.kind = "throws" /\ read'.error.name = "Error"
          /\ task.currentStatus = "Faulted" =>
                read'.kind = "throws" /\ read'.error = task.error
          /\ task.currentStatus = "Canceled" =>
                read'.kind = "throws" /\ IsOperationCanceledError(read'.error)]_vars

\* result was read on a Task that is still Running and threw.
C23_Witness ==
    /\ task.currentStatus = "Running"
    /\ taskPc = "returned"
    /\ read.kind = "throws"
    /\ read.error = Error("Task has not completed successfully.")

\* The position of callback n in the log, 0 when it was not invoked.
InvokedAt(n) ==
    IF \E i \in DOMAIN invoked : invoked[i] = n
    THEN CHOOSE i \in DOMAIN invoked : invoked[i] = n
    ELSE 0

C24_Step ==
    (registerCalls' = registerCalls + 1 /\ token.isCancellationRequested) =>
        /\ Count(invoked, registerCalls + 1) = 0
        /\ Count(invoked', registerCalls + 1) = 1
        /\ Len(invoked') > Len(invoked)
        /\ SubSeq(invoked', 1, Len(invoked) + 1) = Append(invoked, registerCalls + 1)
        /\ token'.callbacks = token.callbacks
        /\ token'.isCancellationRequested

C24_State ==
    /\ \A n \in 1..MaxCallbacks :
          /\ Count(invoked, n) <= 1
          /\ Count(invoked, Nested(n).n) <= 1
    /\ token.isCancellationRequested =>
          /\ token.callbacks = <<>>
          /\ \A i \in DOMAIN registeredBefore :
                registeredBefore[i].kind = "register" =>
                    /\ InvokedAt(registeredBefore[i].n) > 0
                    /\ InvokedAt(Nested(registeredBefore[i].n).n) =
                          InvokedAt(registeredBefore[i].n) + 1

\* C24: register(cb) on a token whose cancellation was already requested
\* invokes cb once, inside the register call, and does not append it, so that
\* no later cancel() invokes it again; the same holds for a register call made
\* by a callback that is running during cancel().
C24_RegisterAfterCancel ==
    /\ []C24_State
    /\ [][C24_Step]_vars

\* A callback running during cancel() registered another one, a further
\* callback was registered after the cancellation, and cancel() was called
\* again.
C24_Witness ==
    /\ cancelCalls = 2
    /\ registerCalls > Len(registeredBefore)
    /\ \E i \in DOMAIN registeredBefore :
          /\ registeredBefore[i].kind = "register"
          /\ Count(invoked, Nested(registeredBefore[i].n).n) = 1
    /\ Count(invoked, registerCalls) = 1

\* n is 1, 2, 4, 8, ...
PowerOfTwo(n) == n = 1 \/ (n > 1 /\ n % 2 = 0 /\ PowerOfTwo(n \div 2))

\* How often a power of two can be halved: L for 2^L.
Halvings(n) == IF n <= 1 THEN 0 ELSE 1 + Halvings(n \div 2)

MultiPassRequest == gpu.cfg.type = "MULTI_PASS"

PowerOfTwoError == Error("Array length must be a power of two for multi-pass algorithms.")

\* C25: a multi-pass execution whose arrayLength is not a power of two creates
\* no buffer and dispatches no pass, it never fulfils, and when it reaches the
\* length check it fails with the power-of-two error.
C25_NonPowerOfTwoFails ==
    (MultiPassRequest /\ ~PowerOfTwo(gpu.cfg.arrayLength)) =>
        /\ gpu.buffers = <<>>
        /\ gpu.events = <<>>
        /\ gpu.submits = 0
        /\ gpu.pc \notin {"m_inputs", "m_params", "m_args", "m_loop", "awaitMap"}
        /\ gpu.pc = "finally" => gpu.cause = PowerOfTwoError
        /\ gpu.pc = "done" =>
              /\ gpu.outcome = "rejected"
              /\ gpu.rtask.currentStatus \in {"Faulted", "Canceled"}

\* arrayLength 3: the execution failed with the power-of-two error and no
\* buffer exists.
C25_Witness ==
    /\ MultiPassRequest
    /\ gpu.cfg.arrayLength = 3
    /\ gpu.pc = "done"
    /\ gpu.rtask.currentStatus = "Faulted"
    /\ gpu.rtask.error = PowerOfTwoError
    /\ gpu.buffers = <<>>

\* The loop positions of stages 1..L: stage ascending, step descending.
ExpectedPairs(L) ==
    IF L <= 0 THEN <<>>
    ELSE ExpectedPairs(L - 1) \o [i \in 1..L |-> [stage |-> L, step |-> L - i + 1]]

PassOps == <<"poll", "write", "dispatch", "submit">>

\* The events of a complete multi-pass run over N = 2^L elements.
ExpectedEvents(L) ==
    LET pairs == ExpectedPairs(L)
    IN [j \in 1..(4 * Len(pairs)) |->
           [op    |-> PassOps[((j - 1) % 4) + 1],
            stage |-> pairs[((j - 1) \div 4) + 1].stage,
            step  |-> pairs[((j - 1) \div 4) + 1].step]]
       \o <<[op |-> "copy", stage |-> 0, step |-> 0],
            [op |-> "submit", stage |-> 0, step |-> 0]>>

IsPrefix(p, q) == Len(p) <= Len(q) /\ p = SubSeq(q, 1, Len(p))

\* C26: for N = 2^L the multi-pass engine runs one pass per (stage, step) with
\* 1 <= step <= stage <= L, stage ascending and step descending within a
\* stage, each pass as poll, parameter write, dispatch, submit, one pass after
\* the other, and submits the readback copy after the last pass.
C26_PassOrder ==
    (MultiPassRequest /\ PowerOfTwo(gpu.cfg.arrayLength)) =>
        /\ IsPrefix(gpu.events, ExpectedEvents(Halvings(gpu.cfg.arrayLength)))
        /\ gpu.readbackBuffer # Null =>
              gpu.events = ExpectedEvents(Halvings(gpu.cfg.arrayLength))

\* N = 8: the six passes and the readback copy were submitted.
C26_Witness ==
    /\ MultiPassRequest
    /\ gpu.cfg.arrayLength = 8
    /\ gpu.pc = "awaitMap"
    /\ Len(gpu.events) = 26
    /\ gpu.events[9] = [op |-> "poll", stage |-> 2, step |-> 1]
    /\ gpu.events[24] = [op |-> "submit", stage |-> 3, step |-> 1]

\* The events logged after cancellation was requested.
EventsAfterCancel == SubSeq(gpu.events, gpu.eventsAtCancel + 1, Len(gpu.events))

PassWork(e) == e.op \in {"write", "dispatch"} \/ (e.op = "submit" /\ e.stage > 0)

\* C27 (amended): once cancellation is requested the multi-pass engine writes,
\* dispatches and submits no further pass and the Task never runs to
\* completion; when the pass loop polls after the request the Task settles
\* Canceled; it settles Faulted only with the cause of another failure.
C27_NoPassAfterCancel ==
    (MultiPassRequest /\ gpu.cancelled) =>
        /\ \A i \in DOMAIN EventsAfterCancel : ~PassWork(EventsAfterCancel[i])
        /\ gpu.pc = "done" =>
              /\ gpu.rtask.currentStatus \in {"Canceled", "Faulted"}
              /\ gpu.rtask.currentStatus = "Faulted" => gpu.rtask.error # CanceledError
              /\ (\E i \in DOMAIN EventsAfterCancel : EventsAfterCancel[i].op = "poll")
                    => gpu.rtask.currentStatus = "Canceled"

\* Cancellation was requested while requestDevice() was pending; the first pass
\* polled, nothing was submitted and the Task is Canceled.
C27_Witness ==
    /\ MultiPassRequest
    /\ gpu.cancelled
    /\ gpu.eventsAtCancel = 0
    /\ gpu.events = <<[op |-> "poll", stage |-> 1, step |-> 1]>>
    /\ gpu.pc = "done"
    /\ gpu.rtask.currentStatus = "Canceled"

\* C27 as stated: once cancellation was requested the Task settles Canceled.
C27_SettlesCanceled ==
    (MultiPassRequest /\ gpu.cancelled /\ gpu.pc = "done") =>
        gpu.rtask.currentStatus = "Canceled"

\* The bindings the claim describes for a single-pass request: the inputs in
\* request order, the output, the computeParams uniform and the argumentData
\* uniform, at indices 0, 1, 2, ...
ExpectedBindingTypes(cfg) ==
    [i \in 1..Len(cfg.inputs) |-> IF cfg.readOnly[i] THEN "read-only-storage" ELSE "storage"]
        \o <<"storage">>
        \o (IF cfg.computeParams # Null THEN <<"uniform">> ELSE <<>>)
        \o (IF cfg.argumentData # Null THEN <<"uniform">> ELSE <<>>)

\* C28: when the single-pass executor has built its bind group, entry j is at
\* binding index j - 1, input i is read-only storage when its readOnly flag is
\* set and read-write storage otherwise, then come the output, the
\* computeParams uniform and the argumentData uniform.
C28_SinglePassBindings ==
    (gpu.cfg.type = "SINGLE_PASS" /\ gpu.pc = "s_check") =>
        /\ Len(gpu.bindings) = Len(ExpectedBindingTypes(gpu.cfg))
        /\ \A j \in DOMAIN gpu.bindings :
              /\ gpu.bindings[j].binding = j - 1
              /\ gpu.bindings[j].type = ExpectedBindingTypes(gpu.cfg)[j]

\* The alignment of a type in floats as the claim gives it.
ClaimedAlignFloats(t) ==
    CASE t \in {"int", "uint", "float"} -> 1
      [] t = "vec2" -> 2
      [] OTHER -> 4

RoundUp(n, m) == ((n + m - 1) \div m) * m

\* The layout of the first k fields as the claim describes it.
ClaimedLayout(schema, k) ==
    IF k = 0 THEN <<>>
    ELSE LET before == ClaimedLayout(schema, k - 1)
             f      == schema[k]
             start  == RoundUp(Len(before), ClaimedAlignFloats(f.type))
             placed == before \o Zeros(start - Len(before)) \o f.value
         IN IF f.type = "vec3" \/ IsMat(f.type)
            THEN placed \o Zeros(RoundUp(Len(placed), 4) - Len(placed))
            ELSE placed

\* C29: the returned array is the claimed layout of the schema, every value
\* unchanged and all padding zero, with the total length rounded up to a
\* multiple of 4 floats.
C29_ClaimedLayout ==
    args.pc = "done" =>
        LET body == ClaimedLayout(args.schema, Len(args.schema))
        IN args.view = body \o Zeros(RoundUp(Len(body), 4) - Len(body))

Vec3ThenFloat ==
    <<[type |-> "vec3", value |-> <<1, 2, 3>>], [type |-> "float", value |-> <<4>>]>>

\* C30 (amended): for {a: vec3 [1,2,3], b: float 4} the result has a byte length
\* that is a multiple of 16 and at least 16, a in floats 0..2 and zero at index
\* 3, and b is kept: 8 floats with value [1,2,3,0,4,0,0,0].
C30_Vec3ThenFloat ==
    (args.pc = "done" /\ args.schema = Vec3ThenFloat) =>
        /\ (Len(args.view) * 4) % 16 = 0
        /\ Len(args.view) * 4 >= 16
        /\ SubSeq(args.view, 1, 4) = <<1, 2, 3, 0>>
        /\ args.view = <<1, 2, 3, 0, 4, 0, 0, 0>>

\* createGpuArgumentBuffer returned for the schema {a: vec3, b: float}.
C30_Witness ==
    /\ args.pc = "done"
    /\ args.schema = Vec3ThenFloat
    /\ Len(args.view) = 8

\* C30 as stated: the result has length 4 floats with value [1,2,3,0].
C30_FourFloats ==
    (args.pc = "done" /\ args.schema = Vec3ThenFloat) => args.view = <<1, 2, 3, 0>>

\* The containers reachable from the set S of containers.
ReachableFrom(heap, S) ==
    LET next == {c \in Containers :
                    \/ c \in S
                    \/ \E d \in S : \E k \in DOMAIN heap[d] : heap[d][k] = Ref(c)}
    IN IF next = S THEN S ELSE ReachableFrom(heap, next)

\* The buffers of the typed arrays and raw buffers reachable from the argument.
ReachableBuffers(heap) ==
    UNION {{heap[c][k].buffer : k \in DOMAIN heap[c]} : c \in ReachableFrom(heap, {1})}
        \ {0}

\* C31: extractTransferables returns for every argument graph, the buffers it
\* returns are exactly the buffers of the typed arrays and raw buffers
\* reachable from the argument, and the graph is left as it was.
C31_TotalAndExact ==
    /\ [](xt.pc # "threw")
    /\ [](xt.pc = "returned" =>
             {xt.transfers[i] : i \in DOMAIN xt.transfers} = ReachableBuffers(xt.heap))
    /\ [][xt'.heap = xt.heap]_vars

\* C39: the returned transfer list holds no buffer twice.
C39_NoDuplicateTransfer ==
    xt.pc = "returned" =>
        \A i, j \in DOMAIN xt.transfers :
            xt.transfers[i] = xt.transfers[j] => i = j

\* The queue is in nondecreasing order of due time.
SortedByTime(q) == \A i, j \in DOMAIN q : i < j => q[i].time <= q[j].time

\* The entries of q that are due at the elapsed time, and those that are not.
DueAt(q, elapsed) ==
    LET IsDue(e) == e.time <= elapsed IN SelectSeq(q, IsDue)

LaterThan(q, elapsed) ==
    LET IsLater(e) == e.time > elapsed IN SelectSeq(q, IsLater)

\* What one run of the frame callback does when the loop is started.
FrameFiresDue ==
    startTime # Null =>
        /\ lastFrame' = DueAt(tasks, now - startTime)
        /\ SortedByTime(lastFrame')
        /\ \A i, j \in DOMAIN lastFrame' : lastFrame'[i].id = lastFrame'[j].id => i = j
        /\ tasks' = LaterThan(tasks, now - startTime)
        /\ (tasks' # <<>>) <=> (animationFrameId' # Null)
        /\ tasks' = <<>> => (animationFrameId' = Null /\ startTime' = Null)

C35_PausedUntilStart ==
    [][(isPaused /\ ~Start) => (isPaused' /\ animationFrameId' = Null)]_vars

\* C34: once cancellation has been requested, the single-pass executor creates
\* no buffer and maps no buffer, and if it ends it ends rejected.
C34_NoStepAfterCancel ==
    /\ [][(gpu.cfg.type = "SINGLE_PASS" /\ gpu.cancelled) =>
             /\ Len(gpu'.buffers) = Len(gpu.buffers)
             /\ \A b \in DOMAIN gpu.buffers :
                    gpu'.buffers[b].mapped => gpu.buffers[b].mapped]_vars
    /\ []((gpu.cfg.type = "SINGLE_PASS" /\ gpu.cancelled /\ gpu.pc = "done") =>
             gpu.outcome = "rejected")

\* The buffers of the given kind that were ever created.
BuffersOfKind(kind) == {b \in DOMAIN gpu.buffers : gpu.buffers[b].kind = kind}

\* Every pass was dispatched with the one parameter uniform buffer and the one
\* bind group created before the loop.
OneUniformOneBindGroup ==
    /\ Cardinality(BuffersOfKind("params")) <= 1
    /\ \A k \in DOMAIN gpu.dispatches :
        /\ gpu.dispatches[k].buffer \in BuffersOfKind("params")
        /\ gpu.dispatches[k].bindGroup = BindGroupHandle

\* C33 (as stated): every pass (stage, step) is dispatched with the parameter
\* uniform holding (stage, step, N, 0).
C33_UniformHoldsLoopStep ==
    gpu.cfg.type = "MULTI_PASS" =>
        /\ OneUniformOneBindGroup
        /\ \A k \in DOMAIN gpu.dispatches :
             gpu.dispatches[k].uniform =
                 <<gpu.dispatches[k].stage, gpu.dispatches[k].step, gpu.cfg.arrayLength, 0>>

\* C33 (amended): every pass (stage, step) is dispatched with the one parameter
\* uniform buffer, rewritten to (stage, step - 1, N, 0), and the one bind group.
C33_UniformHoldsStepMinusOne ==
    gpu.cfg.type = "MULTI_PASS" =>
        /\ OneUniformOneBindGroup
        /\ \A k \in DOMAIN gpu.dispatches :
             gpu.dispatches[k].uniform =
                 <<gpu.dispatches[k].stage, gpu.dispatches[k].step - 1,
                   gpu.cfg.arrayLength, 0>>

\* C33 witness: the three passes of N = 4 were dispatched, the caller having
\* supplied computeParams of its own.
C33_ThreePasses ==
    /\ gpu.cfg.type = "MULTI_PASS"
    /\ gpu.cfg.arrayLength = 4
    /\ gpu.cfg.computeParams # Null
    /\ Len(gpu.dispatches) = 3

\* C38: no queue operation and no mapping call names a destroyed buffer, and
\* when the deserializer is called the readback buffer has been read out,
\* unmapped and destroyed.
C38_NoUseAfterDestroy ==
    /\ \A b \in DOMAIN gpu.buffers : ~gpu.buffers[b].usedAfterDestroy
    /\ gpu.atDeserializer # <<>> =>
         LET rb == gpu.atDeserializer[1][gpu.readbackBuffer]
         IN rb.readOut /\ ~rb.mapped /\ rb.state = "destroyed" /\ ~rb.usedAfterDestroy

\* C38 witness: a multi-pass run with an argument buffer submitted its passes
\* and the copy, and reached the deserializer with every buffer destroyed.
C38_DeserializerReached ==
    /\ gpu.cfg.type = "MULTI_PASS"
    /\ gpu.argumentBuffer # Null
    /\ Len(gpu.dispatches) >= 3
    /\ gpu.atDeserializer # <<>>
    /\ \A b \in DOMAIN gpu.buffers : gpu.buffers[b].state = "destroyed"

\* The Tasks that are settled keep their status in this step.
SettledKeepStatus ==
    \A k \in DOMAIN wtasks :
        wtasks[k].task.currentStatus \in TerminalStatus =>
            wtasks'[k].task.currentStatus = wtasks[k].task.currentStatus

\* C36: a step of cancel() posts {cancel: id} only for ids that are pending,
\* and changes the status of no Task that is already settled.
C36_CancelOnlyWhilePending ==
    [][WorkerCancel =>
          /\ \A i \in DOMAIN NewMessages :
                NewMessages[i].type = "cancel" => NewMessages[i].id \in DOMAIN pending
          /\ SettledKeepStatus]_vars

\* C37: once terminate() has been called, no pending entry belongs to a Task
\* that is still Running.
C37_TerminateSettlesPending ==
    terminated =>
        \A id \in DOMAIN pending : wtasks[pending[id]].task.currentStatus # "Running"

\* C40: a worker error event leaves the pending table empty and every Task
\* that was pending and Running Faulted with the event's message, and changes
\* the status of no Task that was already settled; a response for an id that
\* is not pending changes no Task.
C40_ErrorRejectsPending ==
    /\ [][WorkerError =>
             /\ pending' = EmptyMap
             /\ \A id \in DOMAIN pending :
                   wtasks[pending[id]].task.currentStatus = "Running" =>
                       /\ wtasks'[pending[id]].task.currentStatus = "Faulted"
                       /\ wtasks'[pending[id]].task.error = Error("worker crashed")
             /\ SettledKeepStatus]_vars
    /\ [][(Response /\ lastEvent'.id \notin DOMAIN pending) => wtasks' = wtasks]_vars

====
